---- MODULE Spec2Model ----
(***************************************************************************)
(* Model of the coredns multicluster plugin: the cluster-state controller  *)
(* (three informer loops, modification clock, Stop/Run), the start-up hook *)
(* and the query path ServeDNS -> Services -> Records -> parseRequest ->    *)
(* findServices.                                                            *)
(*                                                                         *)
(* Strings are sequences of tokens: a label "_http" is <<"_", "http">>, an *)
(* IP "172.0.0.2" is <<"172", ".", "0", ".", "0", ".", "2">>.  A domain    *)
(* name is a sequence of labels, leftmost label first.                     *)
(***************************************************************************)
EXTENDS Integers, Sequences, FiniteSets, TLC

\* ------------------------------------------------------------------ bounds
MaxTime == 2
MaxLeft == 3
NumStoppers == 2

\* ------------------------------------------------------- program constants
defaultTTL == 5
TimeoutSeconds == 5
VersionTTL == 28800

Svc == <<"svc">>
Pod == <<"pod">>
DNSSchemaVersion == <<"1", ".", "1", ".", "0">>

errNil == "nil"
errNoItems == "no items found"
errNsNotExposed == "namespace is not exposed"
errInvalidRequest == "invalid query name"

\* ------------------------------------------------------------ string helpers
Upper == [t \in {"TESTNS", "SVC1", "HDLS1", "HTTP", "TCP", "CLUSTERID", "EP1A"} |->
            CASE t = "TESTNS" -> "testns"
              [] t = "SVC1" -> "svc1"
              [] t = "HDLS1" -> "hdls1"
              [] t = "HTTP" -> "http"
              [] t = "TCP" -> "tcp"
              [] t = "CLUSTERID" -> "clusterid"
              [] t = "EP1A" -> "ep1a"]

ToLowerTok(t) == IF t \in DOMAIN Upper THEN Upper[t] ELSE t

ToLower(s) == [i \in 1..Len(s) |-> ToLowerTok(s[i])]

\* strings.Contains(s, tok) for a one-character tok
Contains(s, tok) == \E i \in 1..Len(s) : s[i] = tok

\* strings.ReplaceAll(s, old, new) for one-character old and new
ReplaceAll(s, old, new) == [i \in 1..Len(s) |-> IF s[i] = old THEN new ELSE s[i]]

\* strings.HasPrefix(s, tok) for a one-character tok
HasPrefix(s, tok) == Len(s) > 0 /\ s[1] = tok

\* strings.Join(parts, "/")
RECURSIVE JoinSlash(_)
JoinSlash(parts) ==
    IF parts = <<>> THEN <<>>
    ELSE IF Len(parts) = 1 THEN parts[1]
    ELSE parts[1] \o <<"/">> \o JoinSlash(Tail(parts))

\* name + "." + namespace
ServiceKey(name, namespace) == name \o <<".">> \o namespace

EndpointsKey(name, namespace) == name \o <<".">> \o namespace

\* match checks if a and b are equal (strings.EqualFold).
match(a, b) == ToLower(a) = ToLower(b)

matchPortAndProtocol(aPort, bPort, aProtocol, bProtocol) ==
    (match(aPort, bPort) \/ aPort = <<>>) /\ (match(aProtocol, bProtocol) \/ aProtocol = <<>>)

\* ------------------------------------------------------------ object universe
testns == <<"testns">>
svc1 == <<"svc1">>
hdls1 == <<"hdls1">>
clusterid == <<"clusterid">>
http == <<"http">>
tcp == <<"tcp">>
ip10_0_0_1 == <<"10", ".", "0", ".", "0", ".", "1">>
ip10__2 == <<"10", ":", ":", "2">>
ip172_0_0_2 == <<"172", ".", "0", ".", "0", ".", "2">>
ip172_0_0_3 == <<"172", ".", "0", ".", "0", ".", "3">>

PortHttp == [Name |-> http, Protocol |-> tcp, Port |-> 80]

\* object.ServiceImport as built by ToServiceImport
ToServiceImport(version, name, namespace, type, ips, ports) ==
    [Version |-> version, Name |-> name, Namespace |-> namespace,
     Index |-> ServiceKey(name, namespace), ClusterIPs |-> ips,
     Type |-> type, Ports |-> ports]

SvcUniverse ==
    { ToServiceImport("1", svc1, testns, "ClusterSetIP", <<ip10_0_0_1>>, <<PortHttp>>),
      ToServiceImport("2", svc1, testns, "ClusterSetIP", <<ip10_0_0_1, ip10__2>>, <<PortHttp>>),
      ToServiceImport("1", hdls1, testns, "Headless", <<>>, <<>>) }

Addr(ip, hostname, node) == [IP |-> ip, Hostname |-> hostname, NodeName |-> node]

Subset(addrs, ports) == [Addresses |-> addrs, Ports |-> ports]

\* object.Endpoints as built by EndpointSliceToEndpoints: the index is the
\* service-name label joined with the slice's namespace
EndpointSliceToEndpoints(version, name, namespace, svcLabel, clusterLabel, subsets) ==
    [Version |-> version, Name |-> name, Namespace |-> namespace,
     Index |-> EndpointsKey(svcLabel, namespace), ClusterId |-> clusterLabel,
     Subsets |-> subsets]

Slice1(version, cluster, subsets) ==
    EndpointSliceToEndpoints(version, <<"hdls1-slice1">>, testns, hdls1, cluster, subsets)

SubA == Subset(<<Addr(ip172_0_0_2, <<>>, <<"node1">>)>>, <<PortHttp>>)

EpUniverse ==
    { Slice1("1", clusterid, <<SubA>>),
      \* same content, other node: equivalent to version 1
      Slice1("2", clusterid, <<Subset(<<Addr(ip172_0_0_2, <<>>, <<"node2">>)>>, <<PortHttp>>)>>),
      \* another address IP
      Slice1("3", clusterid, <<Subset(<<Addr(ip172_0_0_3, <<>>, <<"node1">>)>>, <<PortHttp>>)>>),
      \* a hostname
      Slice1("4", clusterid, <<Subset(<<Addr(ip172_0_0_2, <<"ep1a">>, <<"node1">>)>>, <<PortHttp>>)>>),
      \* another port protocol
      Slice1("5", clusterid, <<Subset(<<Addr(ip172_0_0_2, <<>>, <<"node1">>)>>,
                                      <<[Name |-> http, Protocol |-> <<"udp">>, Port |-> 80]>>)>>),
      \* another cluster id
      Slice1("6", <<"other">>, <<SubA>>),
      \* two subsets
      Slice1("7", clusterid, <<SubA, SubA>>),
      \* no port
      Slice1("8", clusterid, <<Subset(<<Addr(ip172_0_0_2, <<>>, <<"node1">>)>>, <<>>)>>),
      \* another port name
      Slice1("9", clusterid, <<Subset(<<Addr(ip172_0_0_2, <<>>, <<"node1">>)>>,
                                      <<[Name |-> <<"web">>, Protocol |-> tcp, Port |-> 80]>>)>>),
      \* another port number
      Slice1("10", clusterid, <<Subset(<<Addr(ip172_0_0_2, <<>>, <<"node1">>)>>,
                                       <<[Name |-> http, Protocol |-> tcp, Port |-> 8080]>>)>>),
      \* two addresses
      Slice1("11", clusterid, <<Subset(<<Addr(ip172_0_0_2, <<>>, <<"node1">>),
                                         Addr(ip172_0_0_3, <<>>, <<"node1">>)>>, <<PortHttp>>)>>) }

NsUniverse == {testns}

\* the store key of an object: namespace/name
ObjKey(o) == <<o.Namespace, o.Name>>

\* --------------------------------------------------------------- configuration
ZoneClusterLocal == <<<<"cluster">>, <<"local">>>>
Zones == {ZoneClusterLocal}
FallZero == {}
FallRoot == {<<>>}

Loops == {"svc", "ns", "ep"}
HandlerLoops == {"svc", "ep"}
Stoppers == 1..NumStoppers

VARIABLES
    Fall,            \* MultiCluster.Fall: the fallthrough zone set
    initEndpointsCache, \* controllerOpts.initEndpointsCache
    loop,            \* per informer: "idle", "listing", "synced", "stopped"
    hasSynced,       \* per informer: its HasSynced()
    svcImportLister, \* the service-import store: a set of ServiceImport
    epLister,        \* the endpoint store: a set of Endpoints
    nsLister,        \* the namespace store: a set of namespace names
    modified,        \* control.modified
    now,             \* time.Now().Unix()
    cb,              \* per handler loop: the callback in progress
    lastUpdate,      \* per handler loop: old and new object of the Update event, when
                     \* the last event of the loop was one (history)
    stopLock,        \* control.stopLock: 0 when free, else the holder
    shutdown,        \* control.shutdown
    closeCount,      \* number of close(stopCh) executed
    stopPc,          \* per Stop() call: its position
    stopRet,         \* per Stop() call: what it returned
    runPc,           \* position of Run()
    onStartPc,       \* position of onStart
    elapsed,         \* seconds since onStart created its tickers
    timeoutHandled,  \* onStart has taken the timeoutTicker case
    resp             \* the last response of ServeDNS

vars == <<Fall, initEndpointsCache, loop, hasSynced, svcImportLister, epLister, nsLister,
          modified, now, cb, lastUpdate, stopLock, shutdown, closeCount, stopPc, stopRet,
          runPc, onStartPc, elapsed, timeoutHandled, resp>>

cfgVars == <<Fall, initEndpointsCache>>
cacheVars == <<svcImportLister, epLister, nsLister>>
clockVars == <<modified, now, cb, lastUpdate>>
stopVars == <<stopLock, shutdown, closeCount, stopPc, stopRet>>
startVars == <<onStartPc, elapsed, timeoutHandled>>

\* ------------------------------------------------------------------ controller
\* a deterministic enumeration of a finite set
RECURSIVE SetToSeq(_)
SetToSeq(S) == IF S = {} THEN <<>> ELSE LET x == CHOOSE x \in S : TRUE IN <<x>> \o SetToSeq(S \ {x})

SvcIndex(idx) == SetToSeq({s \in svcImportLister : s.Index = idx})

EpIndex(idx) == SetToSeq({e \in epLister : e.Index = idx})

\* TRUE when the lookup succeeds (err == nil)
GetNamespaceByName(name) == name \in nsLister

HasSynced == hasSynced["svc"] /\ hasSynced["ns"]

Modified == modified

\* --------------------------------------------------------- change detection
\* a nil interface value handed to a handler
Nil == [nil |-> TRUE]

RECURSIVE addressesEquivalentFrom(_, _, _)
addressesEquivalentFrom(sa, sb, i) ==
    IF i > Len(sa.Addresses) THEN TRUE
    ELSE IF sa.Addresses[i].IP # sb.Addresses[i].IP THEN FALSE
    ELSE IF sa.Addresses[i].Hostname # sb.Addresses[i].Hostname THEN FALSE
    ELSE addressesEquivalentFrom(sa, sb, i + 1)

RECURSIVE portsEquivalentFrom(_, _, _)
portsEquivalentFrom(sa, sb, i) ==
    IF i > Len(sa.Ports) THEN TRUE
    ELSE IF sa.Ports[i].Name # sb.Ports[i].Name THEN FALSE
    ELSE IF sa.Ports[i].Port # sb.Ports[i].Port THEN FALSE
    ELSE IF sa.Ports[i].Protocol # sb.Ports[i].Protocol THEN FALSE
    ELSE portsEquivalentFrom(sa, sb, i + 1)

\* subsetsEquivalent without the loop over the addresses
subsetsEquivalent_NoAddresses(sa, sb) ==
    IF Len(sa.Addresses) # Len(sb.Addresses) THEN FALSE
    ELSE IF Len(sa.Ports) # Len(sb.Ports) THEN FALSE
    ELSE portsEquivalentFrom(sa, sb, 1)

subsetsEquivalent(sa, sb) ==
    IF Len(sa.Addresses) # Len(sb.Addresses) THEN FALSE
    ELSE IF Len(sa.Ports) # Len(sb.Ports) THEN FALSE
    ELSE IF ~addressesEquivalentFrom(sa, sb, 1) THEN FALSE
    ELSE portsEquivalentFrom(sa, sb, 1)

RECURSIVE subsetsAllEquivalentFrom(_, _, _)
subsetsAllEquivalentFrom(a, b, i) ==
    IF i > Len(a.Subsets) THEN TRUE
    ELSE IF ~subsetsEquivalent(a.Subsets[i], b.Subsets[i]) THEN FALSE
    ELSE subsetsAllEquivalentFrom(a, b, i + 1)

\* endpointsEquivalent comparing the whole subsets, node names included
endpointsEquivalent_DeepEqual(a, b) ==
    IF a = Nil \/ b = Nil THEN FALSE
    ELSE a.ClusterId = b.ClusterId /\ a.Subsets = b.Subsets

endpointsEquivalent(a, b) ==
    IF a = Nil \/ b = Nil THEN FALSE
    ELSE IF Len(a.Subsets) # Len(b.Subsets) THEN FALSE
    ELSE IF a.ClusterId # b.ClusterId THEN FALSE
    ELSE subsetsAllEquivalentFrom(a, b, 1)

\* detectChanges without the *object.ServiceImport case
detectChanges_NoServiceImport(kind, oldObj, newObj) ==
    IF newObj # Nil /\ oldObj # Nil /\ oldObj.Version = newObj.Version THEN FALSE
    ELSE CASE kind = "ep" -> ~endpointsEquivalent(oldObj, newObj)
           [] OTHER -> FALSE

\* detectChanges: TRUE when it calls updateModified.  kind is the dynamic
\* type of the object: "svc" for *object.ServiceImport, "ep" for
\* *object.Endpoints.
detectChanges(kind, oldObj, newObj) ==
    IF newObj # Nil /\ oldObj # Nil /\ oldObj.Version = newObj.Version THEN FALSE
    ELSE CASE kind = "svc" -> TRUE
           [] kind = "ep" -> ~endpointsEquivalent(oldObj, newObj)
           [] OTHER -> FALSE

\* an Add handler that leaves the clock alone
HandlerAdd_Skip(obj) == FALSE

\* what each handler does with the clock: TRUE when it calls updateModified
HandlerAdd(obj) == TRUE

HandlerDelete(obj) == TRUE

HandlerUpdate(kind, oldObj, newObj) == detectChanges(kind, oldObj, newObj)

\* the handlers registered per informer (ResourceEventHandlerFuncs); the
\* namespace informer registers none
HasHandlers(l) == l \in {"svc", "ep"}

\* ------------------------------------------------------------------ names
Reverse(s) == [i \in 1..Len(s) |-> s[Len(s) + 1 - i]]

IsSuffix(z, n) == Len(z) <= Len(n) /\ SubSeq(n, Len(n) - Len(z) + 1, Len(n)) = z

\* request.Name(): the query name in lower case
LowerName(n) == [i \in 1..Len(n) |-> ToLower(n[i])]

\* the empty string returned for "no zone": not a sequence of labels of any name
NoZone == <<<<>>>>

\* plugin.Zones.Matches: the longest configured zone the name is under, "" if none
ZoneMatches(zs, qname) ==
    LET Longest(hits) == IF hits = {} THEN NoZone
                         ELSE CHOOSE z \in hits : \A y \in hits : Len(y) <= Len(z)
    IN Longest({z \in zs : IsSuffix(LowerName(z), LowerName(qname))})

\* dnsutil.TrimZone: drops the zone's number of labels from the right; ""
\* (with an error the callers ignore) when nothing is left
TrimZone(name, zone) ==
    IF Len(name) <= Len(zone) THEN <<>> ELSE SubSeq(name, 1, Len(name) - Len(zone))

\* dnsutil.IsReverse(name) > 0
IsReverse(name) ==
    \/ IsSuffix(<<<<"in-addr">>, <<"arpa">>>>, name)
    \/ IsSuffix(<<<<"ip6">>, <<"arpa">>>>, name)

\* msg.Path(zone, prefix): "/" + prefix + "/" + the zone's labels reversed
Path(zone, prefix) == <<"/">> \o prefix \o <<"/">> \o JoinSlash(Reverse(zone))

coredns == <<"c">>

\* ------------------------------------------------------------ parseRequest
Panic == "panic"

ZeroRequest == [port |-> <<>>, protocol |-> <<>>, cluster |-> <<>>, endpoint |-> <<>>,
                service |-> <<>>, namespace |-> <<>>, podOrSvc |-> <<>>]

\* stripUnderscore indexes s[0]: it panics on an empty label
stripUnderscore(s) ==
    IF s = <<>> THEN Panic
    ELSE IF s[1] # "_" THEN s
    ELSE Tail(s)

\* parseRequest from "segs := dns.SplitDomainName(base)" on, for a base that
\* is not empty: [r |-> recordRequest, err |-> error]
parseSegs(segs) ==
    LET \* the two labels left of the service: _port._protocol or endpoint.cluster
        \* (stripUnderscore panics on an empty label)
        Last(r3) ==
            IF segs[1] = <<>> \/ segs[2] = <<>> THEN [r |-> r3, err |-> Panic]
            ELSE IF HasPrefix(segs[2], "_")
                 THEN [r |-> [r3 EXCEPT !.port = stripUnderscore(segs[1]),
                                        !.protocol = stripUnderscore(segs[2])], err |-> errNil]
                 ELSE [r |-> [r3 EXCEPT !.endpoint = stripUnderscore(segs[1]),
                                        !.cluster = stripUnderscore(segs[2])], err |-> errNil]
        Service3(n, r3) ==
            IF n - 3 < 1 THEN [r |-> r3, err |-> errNil]
            ELSE IF n - 3 # 2 THEN [r |-> r3, err |-> errInvalidRequest]
            ELSE Last(r3)
        Namespace2(n, r2) ==
            IF n - 2 < 1 THEN [r |-> r2, err |-> errNil]
            ELSE Service3(n, [r2 EXCEPT !.service = segs[n - 2]])
        PodOrSvc1(n, r1) ==
            IF r1.podOrSvc # Pod /\ r1.podOrSvc # Svc THEN [r |-> r1, err |-> errInvalidRequest]
            ELSE IF n - 1 < 1 THEN [r |-> r1, err |-> errNil]
            ELSE Namespace2(n, [r1 EXCEPT !.namespace = segs[n - 1]])
    IN PodOrSvc1(Len(segs), [ZeroRequest EXCEPT !.port = <<"*">>, !.protocol = <<"*">>,
                                                !.podOrSvc = segs[Len(segs)]])

\* parseRequest without the test for svc.<zone> and pod.<zone>
parseRequest_NoScopeApex(name, zone) ==
    LET Parse(base) ==
            IF base = <<>> THEN [r |-> ZeroRequest, err |-> errNil] ELSE parseSegs(base)
    IN Parse(TrimZone(name, zone))

\* parseRequest(name, zone): [r |-> recordRequest, err |-> error]
parseRequest(name, zone) ==
    LET Parse(base) ==
            IF base = <<>> \/ base = <<Svc>> \/ base = <<Pod>>
            THEN [r |-> ZeroRequest, err |-> errNil]
            ELSE parseSegs(base)
    IN Parse(TrimZone(name, zone))

\* ------------------------------------------------------------ findServices
endpointHostname(addr) ==
    IF addr.Hostname # <<>> THEN addr.Hostname
    ELSE IF Contains(addr.IP, ".") THEN ReplaceAll(addr.IP, ".", "-")
    ELSE IF Contains(addr.IP, ":") THEN ReplaceAll(addr.IP, ":", "-")
    ELSE <<>>

namespaceExists(namespace) == GetNamespaceByName(namespace)

Service(host, port, ttl, key, text) ==
    [Host |-> host, Port |-> port, TTL |-> ttl, Key |-> key, Text |-> text]

\* the records of one address of one subset: one per port passing the filter
RECURSIVE portRecords(_, _, _, _, _, _, _)
portRecords(r, zonePath, svc, ep, addr, ports, ttl) ==
    IF ports = <<>> THEN <<>>
    ELSE LET One(p, rest) ==
                 IF ~matchPortAndProtocol(r.port, p.Name, r.protocol, p.Protocol) THEN rest
                 ELSE <<Service(addr.IP, p.Port, ttl,
                                JoinSlash(<<zonePath, Svc, svc.Namespace, svc.Name,
                                            ep.ClusterId, endpointHostname(addr)>>),
                                <<>>)>> \o rest
         IN One(Head(ports), portRecords(r, zonePath, svc, ep, addr, Tail(ports), ttl))

RECURSIVE addressRecords(_, _, _, _, _, _, _)
addressRecords(r, zonePath, svc, ep, eps, addrs, ttl) ==
    IF addrs = <<>> THEN <<>>
    ELSE LET One(addr, rest) ==
                 IF r.endpoint # <<>>
                    /\ (~match(r.cluster, ep.ClusterId) \/ ~match(r.endpoint, endpointHostname(addr)))
                 THEN rest
                 ELSE portRecords(r, zonePath, svc, ep, addr, eps.Ports, ttl) \o rest
         IN One(Head(addrs), addressRecords(r, zonePath, svc, ep, eps, Tail(addrs), ttl))

RECURSIVE subsetRecords(_, _, _, _, _, _)
subsetRecords(r, zonePath, svc, ep, subsets, ttl) ==
    IF subsets = <<>> THEN <<>>
    ELSE addressRecords(r, zonePath, svc, ep, Head(subsets), Head(subsets).Addresses, ttl)
         \o subsetRecords(r, zonePath, svc, ep, Tail(subsets), ttl)

RECURSIVE endpointRecords(_, _, _, _, _)
endpointRecords(r, zonePath, svc, endpointsList, ttl) ==
    IF endpointsList = <<>> THEN <<>>
    ELSE LET One(ep, rest) ==
                 IF EndpointsKey(svc.Name, svc.Namespace) # ep.Index THEN rest
                 ELSE subsetRecords(r, zonePath, svc, ep, ep.Subsets, ttl) \o rest
         IN One(Head(endpointsList), endpointRecords(r, zonePath, svc, Tail(endpointsList), ttl))

\* the ClusterSetIP branch emitting a record for the first cluster IP only
RECURSIVE clusterIPRecords_FirstIP(_, _, _, _, _)
clusterIPRecords_FirstIP(r, zonePath, svc, ports, ttl) ==
    IF ports = <<>> THEN [services |-> <<>>, hit |-> FALSE]
    ELSE LET One(p, rest) ==
                 IF ~matchPortAndProtocol(r.port, p.Name, r.protocol, p.Protocol) THEN rest
                 ELSE [services |->
                         [i \in 1..(IF svc.ClusterIPs = <<>> THEN 0 ELSE 1) |->
                             Service(svc.ClusterIPs[i], p.Port, ttl,
                                     JoinSlash(<<zonePath, Svc, svc.Namespace, svc.Name>>), <<>>)]
                         \o rest.services,
                       hit |-> TRUE]
         IN One(Head(ports), clusterIPRecords_FirstIP(r, zonePath, svc, Tail(ports), ttl))

\* the ClusterSetIP branch: [services, hit]; hit is TRUE when a port passed
RECURSIVE clusterIPRecords(_, _, _, _, _)
clusterIPRecords(r, zonePath, svc, ports, ttl) ==
    IF ports = <<>> THEN [services |-> <<>>, hit |-> FALSE]
    ELSE LET One(p, rest) ==
                 IF ~matchPortAndProtocol(r.port, p.Name, r.protocol, p.Protocol) THEN rest
                 ELSE [services |->
                         [i \in 1..Len(svc.ClusterIPs) |->
                             Service(svc.ClusterIPs[i], p.Port, ttl,
                                     JoinSlash(<<zonePath, Svc, svc.Namespace, svc.Name>>), <<>>)]
                         \o rest.services,
                       hit |-> TRUE]
         IN One(Head(ports), clusterIPRecords(r, zonePath, svc, Tail(ports), ttl))

\* the loop over serviceList: [services, hit, panic]
RECURSIVE serviceRecords(_, _, _, _)
serviceRecords(r, zonePath, serviceList, ttl) ==
    IF serviceList = <<>> THEN [services |-> <<>>, hit |-> FALSE, panic |-> FALSE]
    ELSE LET Headless(recs, rest) ==
                 [services |-> recs \o rest.services,
                  hit |-> (recs # <<>>) \/ rest.hit,
                  panic |-> rest.panic]
             ClusterSetIP(c, rest) ==
                 [services |-> c.services \o rest.services,
                  hit |-> c.hit \/ rest.hit,
                  panic |-> rest.panic]
             One(svc, rest) ==
                 IF ~(match(r.namespace, svc.Namespace) /\ match(r.service, svc.Name)) THEN rest
                 ELSE IF svc.Type = "Headless" \/ r.endpoint # <<>>
                 THEN \* EpIndex on the nil epLister of a controller built without
                      \* the endpoint watch is a nil dereference
                      IF ~initEndpointsCache
                      THEN [services |-> <<>>, hit |-> FALSE, panic |-> TRUE]
                      ELSE Headless(endpointRecords(r, zonePath, svc,
                                                    EpIndex(ServiceKey(r.service, r.namespace)), ttl),
                                    rest)
                 ELSE ClusterSetIP(clusterIPRecords(r, zonePath, svc, svc.Ports, ttl), rest)
         IN One(Head(serviceList), serviceRecords(r, zonePath, Tail(serviceList), ttl))

\* findServices(r, zone): [services, err]
findServices(r, zone) ==
    IF ~namespaceExists(r.namespace) THEN [services |-> <<>>, err |-> errNoItems]
    ELSE IF r.service = <<>>
    THEN IF namespaceExists(r.namespace) THEN [services |-> <<>>, err |-> errNil]
         ELSE [services |-> <<>>, err |-> errNoItems]
    ELSE LET Result(res) ==
                 IF res.panic THEN [services |-> <<>>, err |-> Panic]
                 ELSE [services |-> res.services,
                       err |-> IF res.hit THEN errNil ELSE errNoItems]
         IN Result(serviceRecords(r, Path(zone, coredns),
                                  SvcIndex(ServiceKey(r.service, r.namespace)), defaultTTL))

\* Records without the namespaceExists test before findServices
Records_NoNamespaceCheck(name, zone) ==
    LET Parsed(p) ==
            IF p.err # errNil THEN [services |-> <<>>, err |-> p.err]
            ELSE IF p.r.podOrSvc = <<>> THEN [services |-> <<>>, err |-> errNil]
            ELSE IF IsReverse(name) THEN [services |-> <<>>, err |-> errNoItems]
            ELSE findServices(p.r, zone)
    IN Parsed(parseRequest(name, zone))

\* Records(state): name is state.Name(), zone is state.Zone
Records(name, zone) ==
    LET Parsed(p) ==
            IF p.err # errNil THEN [services |-> <<>>, err |-> p.err]
            ELSE IF p.r.podOrSvc = <<>> THEN [services |-> <<>>, err |-> errNil]
            ELSE IF IsReverse(name) THEN [services |-> <<>>, err |-> errNoItems]
            ELSE IF ~namespaceExists(p.r.namespace) THEN [services |-> <<>>, err |-> errNsNotExposed]
            ELSE findServices(p.r, zone)
    IN Parsed(parseRequest(name, zone))

\* Services without the hard-coded dns-version record
Services_NoVersion(qname, zone, qtype) ==
    LET Other(rec) ==
            IF rec.err = Panic THEN rec
            ELSE IF Len(rec.services) > 0 THEN [services |-> <<>>, err |-> errNil]
            ELSE [services |-> <<>>, err |-> errNoItems]
    IN IF qtype = "TXT"
       THEN Other(Records(LowerName(qname), zone))
       ELSE Records(LowerName(qname), zone)

\* Services(state): qname is state.QName()
Services(qname, zone, qtype) ==
    LET \* the error of Records is dropped: only the number of records counts
        Other(rec) ==
            IF rec.err = Panic THEN rec
            ELSE IF Len(rec.services) > 0 THEN [services |-> <<>>, err |-> errNil]
            ELSE [services |-> <<>>, err |-> errNoItems]
        Txt(name, segs) ==
            IF Len(segs) = 1 /\ segs[1] = <<"dns-version">>
            THEN [services |-> <<Service(<<>>, 0, VersionTTL, Path(qname, coredns), DNSSchemaVersion)>>,
                  err |-> errNil]
            ELSE Other(Records(name, zone))
    IN IF qtype = "TXT"
       THEN Txt(LowerName(qname), TrimZone(LowerName(qname), zone))
       ELSE Records(LowerName(qname), zone)

IsNameError(err) == err = errNoItems \/ err = errNsNotExposed \/ err = errInvalidRequest

\* ------------------------------------------------- record synthesis (plugin)
QTypes == {"A", "AAAA", "TXT", "SRV", "SOA", "NS", "MX"}

RcodeSuccess == "NOERROR"
RcodeServerFailure == "SERVFAIL"
RcodeNameError == "NXDOMAIN"

\* msg.Service.HostType: the record type the host stands for
HostType(serv) ==
    IF Contains(serv.Host, ".") THEN "A"
    ELSE IF Contains(serv.Host, ":") THEN "AAAA"
    ELSE IF serv.Text = <<>> THEN "CNAME"
    ELSE "TXT"

\* checkForApex: a query for the zone itself first looks up apex.dns.<zone>
checkForApex(qname, zone, qtype) ==
    LET Apex(first) == IF first.err = errNil THEN first ELSE Services(qname, zone, qtype)
    IN IF LowerName(qname) # zone THEN Services(qname, zone, qtype)
       ELSE Apex(Services(<<<<"apex">>, <<"dns">>>> \o zone, zone, qtype))

\* the address records of one type, one per distinct host
RECURSIVE addressRRs(_, _, _, _)
addressRRs(services, what, qname, seen) ==
    IF services = <<>> THEN <<>>
    ELSE LET serv == Head(services) IN
         IF HostType(serv) = what /\ serv.Host \notin seen
         THEN <<[type |-> what, name |-> qname, ttl |-> serv.TTL, data |-> serv.Host]>>
              \o addressRRs(Tail(services), what, qname, seen \cup {serv.Host})
         ELSE addressRRs(Tail(services), what, qname, seen)

RECURSIVE textRRs(_, _, _)
textRRs(services, qname, seen) ==
    IF services = <<>> THEN <<>>
    ELSE LET serv == Head(services) IN
         IF HostType(serv) = "TXT" /\ serv.Text \notin seen
         THEN <<[type |-> "TXT", name |-> qname, ttl |-> serv.TTL, data |-> serv.Text]>>
              \o textRRs(Tail(services), qname, seen \cup {serv.Text})
         ELSE textRRs(Tail(services), qname, seen)

\* plugin.A and plugin.AAAA: [records, extra, err]
pluginAddr(what, qname, zone) ==
    LET Build(sv) ==
            IF sv.err # errNil THEN [records |-> <<>>, extra |-> <<>>, err |-> sv.err]
            ELSE [records |-> addressRRs(sv.services, what, qname, {}), extra |-> <<>>,
                  err |-> errNil]
    IN Build(checkForApex(qname, zone, what))

pluginTXT(qname, zone) ==
    LET Build(sv) ==
            IF sv.err # errNil THEN [records |-> <<>>, extra |-> <<>>, err |-> sv.err]
            ELSE [records |-> textRRs(sv.services, qname, {}), extra |-> <<>>, err |-> errNil]
    IN Build(Services(qname, zone, "TXT"))

\* the SRV records, one per distinct (target, port); the target is the
\* domain of the service key
RECURSIVE srvRRs(_, _, _, _)
srvRRs(services, qname, weight, seen) ==
    IF services = <<>> THEN <<>>
    ELSE LET serv == Head(services) IN
         IF serv.Port # -1 /\ HostType(serv) \in {"A", "AAAA"} /\ <<serv.Key, serv.Port>> \notin seen
         THEN <<[type |-> "SRV", name |-> qname, ttl |-> serv.TTL,
                 data |-> <<0, weight, serv.Port, serv.Key>>]>>
              \o srvRRs(Tail(services), qname, weight, seen \cup {<<serv.Key, serv.Port>>})
         ELSE srvRRs(Tail(services), qname, weight, seen)

RECURSIVE srvExtraRRs(_, _)
srvExtraRRs(services, seen) ==
    IF services = <<>> THEN <<>>
    ELSE LET serv == Head(services) IN
         IF serv.Port # -1 /\ HostType(serv) \in {"A", "AAAA"} /\ <<serv.Key, serv.Host>> \notin seen
         THEN <<[type |-> HostType(serv), name |-> serv.Key, ttl |-> serv.TTL, data |-> serv.Host]>>
              \o srvExtraRRs(Tail(services), seen \cup {<<serv.Key, serv.Host>>})
         ELSE srvExtraRRs(Tail(services), seen)

pluginSRV(qname, zone) ==
    LET Weight(n) == IF n = 0 THEN 100 ELSE 100 \div n
        Build(sv) ==
            IF sv.err # errNil THEN [records |-> <<>>, extra |-> <<>>, err |-> sv.err]
            ELSE [records |-> srvRRs(sv.services, qname, Weight(Len(sv.services)), {}),
                  extra |-> srvExtraRRs(sv.services, {}), err |-> errNil]
    IN Build(Services(qname, zone, "SRV"))

SOARecord(zone) == [type |-> "SOA", name |-> zone, ttl |-> defaultTTL, data |-> <<>>]

pluginSOA(zone) == [records |-> <<SOARecord(zone)>>, extra |-> <<>>, err |-> errNil]

\* plugin.NS looks up ns.dns.<zone> through Services
pluginNS(zone) ==
    LET Build(sv) ==
            IF sv.err # errNil THEN [records |-> <<>>, extra |-> <<>>, err |-> sv.err]
            ELSE [records |-> [i \in 1..Len(sv.services) |->
                                  [type |-> "NS", name |-> zone, ttl |-> sv.services[i].TTL,
                                   data |-> sv.services[i].Key]],
                  extra |-> addressRRs(sv.services, "A", zone, {}), err |-> errNil]
    IN Build(Services(<<<<"ns">>, <<"dns">>>> \o zone, zone, "NS"))

\* ----------------------------------------------------------------- ServeDNS
\* a response; q, err and synced record the query, the resolution error and
\* HasSynced() at the time of the query
Response(kind, rcode, answer, extra, ns, q, err) ==
    [kind |-> kind, rcode |-> rcode, answer |-> answer, extra |-> extra, ns |-> ns,
     q |-> q, err |-> err, synced |-> HasSynced]

NoResponse == [kind |-> "none"]

\* plugin.NextOrFailure: the query goes to the next handler
NextOrFailure(q, err) == Response("next", "", <<>>, <<>>, <<>>, q, err)

\* plugin.BackendError leaving the authority section empty
BackendError_NoSOA(zone, rcode, q, err) == Response("msg", rcode, <<>>, <<>>, <<>>, q, err)

\* plugin.BackendError: an answerless message with the SOA as authority
BackendError(zone, rcode, q, err) == Response("msg", rcode, <<>>, <<>>, <<SOARecord(zone)>>, q, err)

FallThrough(qname) == ZoneMatches(Fall, qname) # NoZone

\* NameErrorResponse without the HasSynced() test
NameErrorResponse_NoSyncCheck(zone, q, err) ==
    IF FallThrough(LowerName(q.name)) THEN NextOrFailure(q, err)
    ELSE BackendError(zone, RcodeNameError, q, err)

\* the branch of ServeDNS taken when IsNameError(err)
NameErrorResponse(zone, q, err) ==
    IF FallThrough(LowerName(q.name)) THEN NextOrFailure(q, err)
    ELSE IF ~HasSynced THEN BackendError(zone, RcodeServerFailure, q, err)
    ELSE BackendError(zone, RcodeNameError, q, err)

\* the switch on state.QType() without the fake A lookup of its default case
Dispatch_NoFakeLookup(qname, zone, qtype) ==
    CASE qtype \in {"A", "AAAA"} -> pluginAddr(qtype, qname, zone)
      [] qtype = "TXT" -> pluginTXT(qname, zone)
      [] qtype = "SRV" -> pluginSRV(qname, zone)
      [] qtype = "SOA" -> IF qname = zone THEN pluginSOA(zone)
                          ELSE [records |-> <<>>, extra |-> <<>>, err |-> errNil]
      [] qtype = "NS" /\ LowerName(qname) = zone -> pluginNS(zone)
      [] OTHER -> [records |-> <<>>, extra |-> <<>>, err |-> errNil]

\* the switch on state.QType(): [records, extra, err]
Dispatch(qname, zone, qtype) ==
    CASE qtype \in {"A", "AAAA"} -> pluginAddr(qtype, qname, zone)
      [] qtype = "TXT" -> pluginTXT(qname, zone)
      [] qtype = "SRV" -> pluginSRV(qname, zone)
      [] qtype = "SOA" -> IF qname = zone THEN pluginSOA(zone)
                          ELSE [records |-> <<>>, extra |-> <<>>, err |-> errNil]
      [] qtype = "NS" /\ LowerName(qname) = zone -> pluginNS(zone)
      \* default, and NS falling through: a fake A lookup of which only the
      \* error is kept
      [] OTHER -> [records |-> <<>>, extra |-> <<>>, err |-> pluginAddr("A", qname, zone).err]

\* ServeDNS for the question q = [name, qtype]
ServeDNSResponse(q) ==
    LET Reply(zone, d) ==
            IF d.err = Panic THEN Response("panic", "", <<>>, <<>>, <<>>, q, d.err)
            ELSE IF IsNameError(d.err) THEN NameErrorResponse(zone, q, d.err)
            ELSE IF d.err # errNil
                 THEN Response("error", RcodeServerFailure, <<>>, <<>>, <<>>, q, d.err)
            ELSE IF Len(d.records) = 0 THEN BackendError(zone, RcodeSuccess, q, d.err)
            ELSE Response("msg", RcodeSuccess, d.records, d.extra, <<>>, q, d.err)
        \* the zone keeps the case of the query
        InZone(zone) == Reply(zone, Dispatch(q.name, zone, q.qtype))
        Matched(matched) ==
            IF matched = NoZone THEN NextOrFailure(q, errNil)
            ELSE InZone(SubSeq(q.name, Len(q.name) - Len(matched) + 1, Len(q.name)))
    IN Matched(ZoneMatches(Zones, q.name))

\* ------------------------------------------------------------------- Init
\* cb[l]: pc is "store" between time.Now().Unix() and atomic.StoreInt64 of
\* updateModified; unix is the time read; before (Modified() when the event
\* was delivered) and kind (the event) are history
IdleCallback == [pc |-> "idle", unix |-> 0, before |-> 0, kind |-> "none"]

NoUpdate == [none |-> TRUE]

InitControl ==
    /\ Fall \in {FallZero, FallRoot}
    /\ initEndpointsCache \in BOOLEAN
    /\ loop = [l \in Loops |-> "idle"]
    /\ hasSynced = [l \in Loops |-> FALSE]
    /\ svcImportLister = {}
    /\ epLister = {}
    /\ nsLister = {}
    /\ modified = 0
    /\ now = 1
    /\ cb = [l \in HandlerLoops |-> IdleCallback]
    /\ lastUpdate = [l \in HandlerLoops |-> NoUpdate]
    /\ stopLock = 0
    /\ shutdown = FALSE
    /\ closeCount = 0
    /\ stopPc = [s \in Stoppers |-> "idle"]
    /\ stopRet = [s \in Stoppers |-> "none"]
    /\ runPc = "idle"
    /\ onStartPc = "idle"
    /\ elapsed = 0
    /\ timeoutHandled = FALSE

Init == InitControl /\ resp = NoResponse

\* ------------------------------------------------------------------ onStart
\* onStart spawns Run() and creates its tickers
OnStartBegin ==
    /\ onStartPc = "idle"
    /\ onStartPc' = "polling"
    /\ runPc' = "goSvc"
    /\ UNCHANGED <<cfgVars, loop, hasSynced, cacheVars, clockVars, stopVars,
                   elapsed, timeoutHandled, resp>>

\* a second passes while onStart waits in its select
OnStartTick ==
    /\ onStartPc = "polling"
    /\ elapsed < TimeoutSeconds
    /\ elapsed' = elapsed + 1
    /\ UNCHANGED <<cfgVars, loop, hasSynced, cacheVars, clockVars, stopVars,
                   runPc, onStartPc, timeoutHandled, resp>>

\* case <-checkSyncTicker.C
OnStartCheckSync ==
    /\ onStartPc = "polling"
    /\ onStartPc' = IF HasSynced THEN "returned" ELSE "polling"
    /\ UNCHANGED <<cfgVars, loop, hasSynced, cacheVars, clockVars, stopVars,
                   runPc, elapsed, timeoutHandled, resp>>

\* case <-timeoutTicker.C: logs a warning and goes round the loop again
OnStartTimeout ==
    /\ onStartPc = "polling"
    /\ elapsed = TimeoutSeconds
    /\ ~timeoutHandled
    /\ timeoutHandled' = TRUE
    /\ UNCHANGED <<cfgVars, loop, hasSynced, cacheVars, clockVars, stopVars,
                   runPc, onStartPc, elapsed, resp>>

\* ---------------------------------------------------------------------- Run
\* go c.svcImportController.Run(c.stopCh)
RunGoSvc ==
    /\ runPc = "goSvc"
    /\ loop' = [loop EXCEPT !["svc"] = "listing"]
    /\ runPc' = "goNs"
    /\ UNCHANGED <<cfgVars, hasSynced, cacheVars, clockVars, stopVars, startVars, resp>>

\* go c.nsController.Run(c.stopCh)
RunGoNs ==
    /\ runPc = "goNs"
    /\ loop' = [loop EXCEPT !["ns"] = "listing"]
    /\ runPc' = "ep"
    /\ UNCHANGED <<cfgVars, hasSynced, cacheVars, clockVars, stopVars, startVars, resp>>

\* if c.epController != nil { c.epController.Run(c.stopCh) }: called, not spawned
RunEp ==
    /\ runPc = "ep"
    /\ IF initEndpointsCache
       THEN /\ loop' = [loop EXCEPT !["ep"] = "listing"]
            /\ runPc' = "inEp"
       ELSE /\ loop' = loop
            /\ runPc' = "wait"
    /\ UNCHANGED <<cfgVars, hasSynced, cacheVars, clockVars, stopVars, startVars, resp>>

\* c.epController.Run returns once the endpoint loop has stopped
RunEpReturn ==
    /\ runPc = "inEp"
    /\ loop["ep"] = "stopped"
    /\ runPc' = "wait"
    /\ UNCHANGED <<cfgVars, loop, hasSynced, cacheVars, clockVars, stopVars, startVars, resp>>

\* Run() returning without receiving from the stop channel
RunWait_NoReceive ==
    /\ runPc = "wait"
    /\ runPc' = "returned"
    /\ UNCHANGED <<cfgVars, loop, hasSynced, cacheVars, clockVars, stopVars, startVars, resp>>

\* <-c.stopCh
RunWait ==
    /\ runPc = "wait"
    /\ closeCount > 0
    /\ runPc' = "returned"
    /\ UNCHANGED <<cfgVars, loop, hasSynced, cacheVars, clockVars, stopVars, startVars, resp>>

\* ---------------------------------------------------------- informer loops
Running(l) == loop[l] \in {"listing", "synced"}

CallbackIdle(l) == l \in HandlerLoops => cb[l].pc = "idle"

\* the informer has processed its initial list
LoopSynced(l) ==
    /\ loop[l] = "listing"
    /\ CallbackIdle(l)
    /\ loop' = [loop EXCEPT ![l] = "synced"]
    /\ hasSynced' = [hasSynced EXCEPT ![l] = TRUE]
    /\ UNCHANGED <<cfgVars, cacheVars, clockVars, stopVars, runPc, startVars, resp>>

\* the informer observes the closed stop channel and returns
LoopStop(l) ==
    /\ Running(l)
    /\ CallbackIdle(l)
    /\ closeCount > 0
    /\ loop' = [loop EXCEPT ![l] = "stopped"]
    /\ UNCHANGED <<cfgVars, hasSynced, cacheVars, clockVars, stopVars, runPc, startVars, resp>>

\* --------------------------------------------------------------------- Stop
\* Stop() entered without waiting for the mutex
StopLock_NoMutex(s) ==
    /\ stopPc[s] = "idle"
    /\ stopLock' = s
    /\ stopPc' = [stopPc EXCEPT ![s] = "locked"]
    /\ UNCHANGED <<cfgVars, loop, hasSynced, cacheVars, clockVars, shutdown, closeCount,
                   stopRet, runPc, startVars, resp>>

\* c.stopLock.Lock()
StopLock(s) ==
    /\ stopPc[s] = "idle"
    /\ stopLock = 0
    /\ stopLock' = s
    /\ stopPc' = [stopPc EXCEPT ![s] = "locked"]
    /\ UNCHANGED <<cfgVars, loop, hasSynced, cacheVars, clockVars, shutdown, closeCount,
                   stopRet, runPc, startVars, resp>>

\* if !c.shutdown { close(c.stopCh)
StopCheck(s) ==
    /\ stopPc[s] = "locked"
    /\ IF ~shutdown
       THEN /\ closeCount' = closeCount + 1
            /\ stopPc' = [stopPc EXCEPT ![s] = "closed"]
       ELSE /\ closeCount' = closeCount
            /\ stopPc' = [stopPc EXCEPT ![s] = "failed"]
    /\ UNCHANGED <<cfgVars, loop, hasSynced, cacheVars, clockVars, stopLock, shutdown,
                   stopRet, runPc, startVars, resp>>

\* c.shutdown = true
StopSetShutdown(s) ==
    /\ stopPc[s] = "closed"
    /\ shutdown' = TRUE
    /\ stopPc' = [stopPc EXCEPT ![s] = "ok"]
    /\ UNCHANGED <<cfgVars, loop, hasSynced, cacheVars, clockVars, stopLock, closeCount,
                   stopRet, runPc, startVars, resp>>

\* return nil / return fmt.Errorf(...), with the deferred Unlock
StopReturn(s) ==
    /\ stopPc[s] \in {"ok", "failed"}
    /\ stopRet' = [stopRet EXCEPT ![s] = IF stopPc[s] = "ok" THEN "nil"
                                         ELSE "shutdown already in progress"]
    /\ stopLock' = 0
    /\ stopPc' = [stopPc EXCEPT ![s] = "done"]
    /\ UNCHANGED <<cfgVars, loop, hasSynced, cacheVars, clockVars, shutdown, closeCount,
                   runPc, startVars, resp>>

\* --------------------------------------------------------- watch events
\* the wall clock moves on
Tick ==
    /\ now < MaxTime
    /\ now' = now + 1
    /\ UNCHANGED <<cfgVars, loop, hasSynced, cacheVars, modified, cb, lastUpdate, stopVars,
                   runPc, startVars, resp>>

\* the handler of loop l runs after the store changed; when it calls
\* updateModified it has read time.Now().Unix() and has yet to store it
Deliver(l, kind, calls) ==
    cb' = IF calls
          THEN [cb EXCEPT ![l] = [pc |-> "store", unix |-> now, before |-> modified, kind |-> kind]]
          ELSE cb

\* updateModified: atomic.StoreInt64(&c.modified, unix)
StoreModified(l) ==
    /\ cb[l].pc = "store"
    /\ modified' = cb[l].unix
    /\ cb' = [cb EXCEPT ![l] = IdleCallback]
    /\ UNCHANGED <<cfgVars, loop, hasSynced, cacheVars, now, lastUpdate, stopVars,
                   runPc, startVars, resp>>

SameKey(lister, o) == {x \in lister : ObjKey(x) = ObjKey(o)}

SvcAdd(o) ==
    /\ Running("svc") /\ cb["svc"].pc = "idle"
    /\ SameKey(svcImportLister, o) = {}
    /\ svcImportLister' = svcImportLister \cup {o}
    /\ Deliver("svc", "add", HandlerAdd(o))
    /\ lastUpdate' = [lastUpdate EXCEPT !["svc"] = NoUpdate]
    /\ UNCHANGED <<cfgVars, loop, hasSynced, epLister, nsLister, modified, now, stopVars,
                   runPc, startVars, resp>>

SvcUpdate(o) ==
    /\ Running("svc") /\ cb["svc"].pc = "idle"
    /\ \E old \in SameKey(svcImportLister, o) :
         /\ svcImportLister' = (svcImportLister \ {old}) \cup {o}
         /\ Deliver("svc", "update", HandlerUpdate("svc", old, o))
         /\ lastUpdate' = [lastUpdate EXCEPT !["svc"] = [old |-> old, new |-> o]]
    /\ UNCHANGED <<cfgVars, loop, hasSynced, epLister, nsLister, modified, now, stopVars,
                   runPc, startVars, resp>>

SvcDelete(o) ==
    /\ Running("svc") /\ cb["svc"].pc = "idle"
    /\ o \in svcImportLister
    /\ svcImportLister' = svcImportLister \ {o}
    /\ Deliver("svc", "delete", HandlerDelete(o))
    /\ lastUpdate' = [lastUpdate EXCEPT !["svc"] = NoUpdate]
    /\ UNCHANGED <<cfgVars, loop, hasSynced, epLister, nsLister, modified, now, stopVars,
                   runPc, startVars, resp>>

EpAdd(o) ==
    /\ Running("ep") /\ cb["ep"].pc = "idle"
    /\ SameKey(epLister, o) = {}
    /\ epLister' = epLister \cup {o}
    /\ Deliver("ep", "add", HandlerAdd(o))
    /\ lastUpdate' = [lastUpdate EXCEPT !["ep"] = NoUpdate]
    /\ UNCHANGED <<cfgVars, loop, hasSynced, svcImportLister, nsLister, modified, now, stopVars,
                   runPc, startVars, resp>>

EpUpdate(o) ==
    /\ Running("ep") /\ cb["ep"].pc = "idle"
    /\ \E old \in SameKey(epLister, o) :
         /\ epLister' = (epLister \ {old}) \cup {o}
         /\ Deliver("ep", "update", HandlerUpdate("ep", old, o))
         /\ lastUpdate' = [lastUpdate EXCEPT !["ep"] = [old |-> old, new |-> o]]
    /\ UNCHANGED <<cfgVars, loop, hasSynced, svcImportLister, nsLister, modified, now, stopVars,
                   runPc, startVars, resp>>

EpDelete(o) ==
    /\ Running("ep") /\ cb["ep"].pc = "idle"
    /\ o \in epLister
    /\ epLister' = epLister \ {o}
    /\ Deliver("ep", "delete", HandlerDelete(o))
    /\ lastUpdate' = [lastUpdate EXCEPT !["ep"] = NoUpdate]
    /\ UNCHANGED <<cfgVars, loop, hasSynced, svcImportLister, nsLister, modified, now, stopVars,
                   runPc, startVars, resp>>

\* the namespace informer has no handlers: only the store changes
NsAdd(n) ==
    /\ Running("ns")
    /\ n \notin nsLister
    /\ nsLister' = nsLister \cup {n}
    /\ UNCHANGED <<cfgVars, loop, hasSynced, svcImportLister, epLister, clockVars, stopVars,
                   runPc, startVars, resp>>

NsDelete(n) ==
    /\ Running("ns")
    /\ n \in nsLister
    /\ nsLister' = nsLister \ {n}
    /\ UNCHANGED <<cfgVars, loop, hasSynced, svcImportLister, epLister, clockVars, stopVars,
                   runPc, startVars, resp>>

\* ----------------------------------------------------------------- queries
\* a query path that touches the modification clock
ServeDNS_Touch(q) ==
    /\ resp' = ServeDNSResponse(q)
    /\ modified' = now
    /\ UNCHANGED <<cfgVars, loop, hasSynced, cacheVars, now, cb, lastUpdate, stopVars, runPc,
                   startVars>>

\* ServeDNS is a method of the handler: it can be called in any state of the
\* controller, whether or not onStart has returned (the tests call it on a
\* controller that reports HasSynced() false)
ServeDNS(q) ==
    /\ resp' = ServeDNSResponse(q)
    /\ UNCHANGED <<cfgVars, loop, hasSynced, cacheVars, clockVars, stopVars, runPc, startVars>>

Name(labels) == labels \o ZoneClusterLocal

QNames ==
    { Name(<<svc1, testns, Svc>>),
      Name(<<hdls1, testns, Svc>>),
      Name(<<<<"172", "-", "0", "-", "0", "-", "2">>, clusterid, hdls1, testns, Svc>>),
      Name(<<svc1, <<"nsnoexist">>, Svc>>),
      Name(<<svc1, testns, <<"bogus">>>>),
      Name(<<>>),
      Name(<<<<"dns-version">>>>),
      <<svc1, <<"example">>, <<"org">>>> }

Q(labels, qtype) == [name |-> Name(labels), qtype |-> qtype]

Queries ==
    [name : QNames, qtype : {"A"}] \cup
    { Q(<<svc1, testns, Svc>>, "AAAA"),
      Q(<<svc1, testns, Svc>>, "TXT"),
      Q(<<svc1, <<"nsnoexist">>, Svc>>, "TXT"),
      Q(<<<<"dns-version">>>>, "TXT"),
      Q(<<svc1, testns, Svc>>, "SRV"),
      Q(<<hdls1, testns, Svc>>, "SRV"),
      Q(<<>>, "SOA"),
      Q(<<svc1, testns, Svc>>, "SOA"),
      Q(<<>>, "NS"),
      Q(<<svc1, testns, Svc>>, "NS"),
      Q(<<svc1, testns, Svc>>, "MX"),
      Q(<<svc1, testns, <<"bogus">>>>, "MX") }

\* the objects the serving specification feeds to the stores
SvcServe == {o \in SvcUniverse : o.Version = "1"}
EpServe == {o \in EpUniverse : o.Version = "1"}

\* ---------------------------------------------------------- specifications
StartSteps == OnStartBegin \/ RunGoSvc \/ RunGoNs \/ RunEp

\* the whole program
Next ==
    \/ StartSteps
    \/ OnStartTick \/ OnStartCheckSync \/ OnStartTimeout
    \/ RunEpReturn \/ RunWait
    \/ \E l \in Loops : LoopSynced(l) \/ LoopStop(l)
    \/ \E s \in Stoppers : StopLock(s) \/ StopCheck(s) \/ StopSetShutdown(s) \/ StopReturn(s)
    \/ Tick
    \/ \E l \in HandlerLoops : StoreModified(l)
    \/ \E o \in SvcUniverse : SvcAdd(o) \/ SvcUpdate(o) \/ SvcDelete(o)
    \/ \E o \in EpUniverse : EpAdd(o) \/ EpUpdate(o) \/ EpDelete(o)
    \/ \E n \in NsUniverse : NsAdd(n) \/ NsDelete(n)
    \/ \E q \in Queries : ServeDNS(q)

Spec == Init /\ [][Next]_vars

\* start-up, synchronization and shutdown: the stores stay empty and no
\* query is served
NextLife ==
    \/ StartSteps
    \/ OnStartTick \/ OnStartCheckSync \/ OnStartTimeout
    \/ RunEpReturn \/ RunWait
    \/ \E l \in Loops : LoopSynced(l) \/ LoopStop(l)
    \/ \E s \in Stoppers : StopLock(s) \/ StopCheck(s) \/ StopSetShutdown(s) \/ StopReturn(s)

SpecLife == Init /\ [][NextLife]_vars

\* the scheduler runs every goroutine that can take a step; whether an
\* informer ever finishes its initial list, and whether anyone calls Stop,
\* is up to the environment
FairLife ==
    /\ WF_vars(RunGoSvc) /\ WF_vars(RunGoNs) /\ WF_vars(RunEp)
    /\ WF_vars(RunEpReturn) /\ WF_vars(RunWait)
    /\ \A l \in Loops : WF_vars(LoopStop(l))
    /\ \A s \in Stoppers : WF_vars(StopCheck(s)) /\ WF_vars(StopSetShutdown(s)) /\ WF_vars(StopReturn(s))

SpecLifeFair == SpecLife /\ FairLife

\* queries against the stores while the informers list and synchronize
NextServe ==
    \/ StartSteps
    \/ \E l \in Loops : LoopSynced(l)
    \/ \E l \in HandlerLoops : StoreModified(l)
    \/ \E o \in SvcServe : SvcAdd(o) \/ SvcDelete(o)
    \/ \E o \in EpServe : EpAdd(o) \/ EpDelete(o)
    \/ \E n \in NsUniverse : NsAdd(n) \/ NsDelete(n)
    \/ \E q \in Queries : ServeDNS(q)

SpecServe == Init /\ [][NextServe]_vars

\* watch events and the modification clock
NextClock ==
    \/ StartSteps
    \/ Tick
    \/ \E l \in HandlerLoops : StoreModified(l)
    \/ \E o \in SvcUniverse : SvcAdd(o) \/ SvcUpdate(o) \/ SvcDelete(o)
    \/ \E o \in EpUniverse : EpAdd(o) \/ EpUpdate(o) \/ EpDelete(o)
    \/ \E n \in NsUniverse : NsAdd(n) \/ NsDelete(n)

InitClock == Init /\ initEndpointsCache /\ Fall = FallZero

SpecClock == InitClock /\ [][NextClock]_vars

\* ------------------------------------------------- parseRequest on its own
\* the labels tried left of the service label: port and protocol labels,
\* plain labels, a lone underscore and the empty label that
\* dns.SplitDomainName yields between two consecutive dots
LeftLabels == { <<"_", "http">>, <<"_", "tcp">>, <<"1-2-3-4">>, <<"cluster">>, <<"_">>, <<>> }

ScopeLabels == { Svc, Pod, <<"pood">> }

RECURSIVE LabelSeqs(_)
LabelSeqs(n) ==
    IF n = 0 THEN {<<>>}
    ELSE LabelSeqs(n - 1) \cup {<<l>> \o t : l \in LeftLabels, t \in {x \in LabelSeqs(n - 1) : Len(x) = n - 1}}

\* the names tried, without their zone: the apex, a scope, namespace.scope,
\* and up to MaxLeft labels left of service.namespace.scope
ParseBases ==
    {<<>>}
    \cup {<<sc>> : sc \in ScopeLabels}
    \cup {<<<<"mynamespace">>, sc>> : sc \in ScopeLabels}
    \cup {left \o <<<<"webs">>, <<"mynamespace">>, sc>> : left \in LabelSeqs(MaxLeft), sc \in ScopeLabels}

ParseZones == { ZoneClusterLocal, <<<<"inter">>, <<"webs">>, <<"tests">>>>, <<>> }

\* a pending call parseRequest(state.Name(), state.Zone): the labels of the
\* name left of the zone, and the zone
ParseCalls == {[kind |-> "call", base |-> b, zone |-> z] : b \in ParseBases, z \in ParseZones}

\* the call is made; the response keeps its arguments and records the result
CallParseRequest ==
    /\ resp.kind = "call"
    /\ resp' = [kind |-> "parsed", base |-> resp.base, zone |-> resp.zone,
                r |-> parseRequest(resp.base \o resp.zone, resp.zone).r,
                err |-> parseRequest(resp.base \o resp.zone, resp.zone).err]
    /\ UNCHANGED <<cfgVars, loop, hasSynced, cacheVars, clockVars, stopVars, runPc, startVars>>

NextParse == CallParseRequest

InitParse == InitControl /\ initEndpointsCache /\ Fall = FallZero /\ resp \in ParseCalls

SpecParse == InitParse /\ [][NextParse]_vars

\* --------------------------------------- resolution against filled stores
\* every informer of the configuration has listed and synchronized and
\* onStart has returned; the stores hold what the informers listed (no
\* endpoints store without the endpoint watch), and one query is then resolved
PortHttps == [Name |-> <<"https">>, Protocol |-> tcp, Port |-> 443]

ipMapped == <<":", ":", "ffff", ":", "10", ".", "0", ".", "0", ".", "1">>
ipFd00__1 == <<"fd00", ":", ":", "1">>
ep1a == <<"ep1a">>

\* the service imports an informer may list: svc1 with no, one or two cluster
\* IPs and with no, one or two ports, and the headless hdls1
FindSvcUniverse ==
    { ToServiceImport("1", svc1, testns, "ClusterSetIP", <<ip10_0_0_1>>, <<PortHttp>>),
      ToServiceImport("2", svc1, testns, "ClusterSetIP", <<ip10_0_0_1, ip10__2>>, <<PortHttp>>),
      ToServiceImport("3", svc1, testns, "ClusterSetIP", <<ip10_0_0_1, ip10__2>>,
                      <<PortHttps, PortHttp>>),
      ToServiceImport("4", svc1, testns, "ClusterSetIP", <<ip10_0_0_1>>, <<>>),
      ToServiceImport("5", svc1, testns, "ClusterSetIP", <<>>, <<PortHttp>>),
      ToServiceImport("1", hdls1, testns, "Headless", <<>>, <<>>) }

\* the endpoint slices of hdls1: an address without hostname, two addresses
\* sharing a hostname, IPv6 addresses with and without dots, and a slice of
\* another cluster
FindEpUniverse ==
    { Slice1("1", clusterid, <<SubA>>),
      Slice1("2", clusterid, <<Subset(<<Addr(ip172_0_0_2, ep1a, <<"node1">>),
                                        Addr(ip172_0_0_3, ep1a, <<"node2">>)>>, <<PortHttp>>)>>),
      Slice1("3", clusterid, <<Subset(<<Addr(ipMapped, <<>>, <<"node1">>),
                                        Addr(ipFd00__1, <<>>, <<"node1">>)>>, <<PortHttp>>)>>),
      EndpointSliceToEndpoints("1", <<"hdls1-slice2">>, testns, hdls1, <<"other">>, <<SubA>>) }

\* a store holds one object per key
Stores(universe) ==
    {S \in SUBSET universe : \A a, b \in S : ObjKey(a) = ObjKey(b) => a = b}

Dashed(ip) == ReplaceAll(ReplaceAll(ip, ".", "-"), ":", "-")

FindNames ==
    { <<>>, <<Svc>>, <<Pod>>,
      <<svc1, testns, Svc>>,
      <<<<"_", "http">>, <<"_", "tcp">>, svc1, testns, Svc>>,
      <<<<"_", "https">>, <<"_", "tcp">>, svc1, testns, Svc>>,
      <<<<"_", "http">>, <<"_", "udp">>, svc1, testns, Svc>>,
      <<<<"_", "HTTP">>, <<"_", "TCP">>, svc1, testns, Svc>>,
      <<<<"_">>, <<"_", "tcp">>, svc1, testns, Svc>>,
      <<hdls1, testns, Svc>>,
      <<<<"_", "http">>, <<"_", "tcp">>, hdls1, testns, Svc>>,
      <<Dashed(ip172_0_0_2), clusterid, hdls1, testns, Svc>>,
      <<Dashed(ip172_0_0_2), <<"other">>, hdls1, testns, Svc>>,
      <<ep1a, clusterid, hdls1, testns, Svc>>,
      <<<<"EP1A">>, <<"CLUSTERID">>, <<"HDLS1">>, <<"TESTNS">>, Svc>>,
      <<testns, Svc>>,
      <<svc1, <<"nsnoexist">>, Svc>>,
      <<<<"_", "http">>, <<"_", "tcp">>, svc1, <<"nsnoexist">>, Svc>>,
      <<<<"nsnoexist">>, Svc>>,
      <<<<"x">>, svc1, <<"nsnoexist">>, Svc>>,
      <<svc1, <<"nsnoexist">>, <<"bogus">>>> }

FindQueries == {Q(n, t) : n \in FindNames, t \in QTypes}

\* a call of Services(state) for the question q, as made by the plugin.A,
\* plugin.SRV and plugin.TXT helpers of ServeDNS; the response records the
\* question, the records and the error
CallServices(q) ==
    /\ q.qtype \in {"A", "AAAA", "SRV", "TXT"}
    /\ resp' = [kind |-> "services", q |-> q,
                services |-> Services(q.name, ZoneClusterLocal, q.qtype).services,
                err |-> Services(q.name, ZoneClusterLocal, q.qtype).err]
    /\ UNCHANGED <<cfgVars, loop, hasSynced, cacheVars, clockVars, stopVars, runPc, startVars>>

NextFind ==
    /\ resp = NoResponse
    /\ \E q \in FindQueries : ServeDNS(q) \/ CallServices(q)

InitFind ==
    /\ Fall = FallZero
    /\ initEndpointsCache \in BOOLEAN
    /\ loop = [l \in Loops |-> IF l = "ep" /\ ~initEndpointsCache THEN "idle" ELSE "synced"]
    /\ hasSynced = [l \in Loops |-> l # "ep" \/ initEndpointsCache]
    /\ svcImportLister \in Stores(FindSvcUniverse)
    /\ epLister \in (IF initEndpointsCache THEN Stores(FindEpUniverse) ELSE {{}})
    /\ nsLister \in SUBSET NsUniverse
    /\ modified = (IF svcImportLister = {} /\ epLister = {} THEN 0 ELSE 1)
    /\ now = 1
    /\ cb = [l \in HandlerLoops |-> IdleCallback]
    /\ lastUpdate = [l \in HandlerLoops |-> NoUpdate]
    /\ stopLock = 0
    /\ shutdown = FALSE
    /\ closeCount = 0
    /\ stopPc = [s \in Stoppers |-> "idle"]
    /\ stopRet = [s \in Stoppers |-> "none"]
    /\ runPc = (IF initEndpointsCache THEN "inEp" ELSE "wait")
    /\ onStartPc = "returned"
    /\ elapsed = 0
    /\ timeoutHandled = FALSE
    /\ resp = NoResponse

SpecFind == InitFind /\ [][NextFind]_vars

\* ===================================================================== claims
\* ------------------------------------------------------------------------ C1
\* C1: a query whose resolution ends in a name error is delegated to the next
\* handler when the fallthrough zones match its name, else answered SERVFAIL
\* when HasSynced() is false, else answered NXDOMAIN with the SOA as
\* authority; and no NXDOMAIN is produced while HasSynced() is false.
C1_NameErrorOrder ==
    resp.kind # "none" =>
      /\ IsNameError(resp.err) =>
           IF \E z \in Fall : IsSuffix(z, LowerName(resp.q.name))
           THEN resp.kind = "next"
           ELSE IF ~resp.synced
           THEN resp.kind = "msg" /\ resp.rcode = RcodeServerFailure
           ELSE /\ resp.kind = "msg" /\ resp.rcode = RcodeNameError
                /\ resp.answer = <<>>
                /\ Len(resp.ns) = 1 /\ resp.ns[1].type = "SOA"
      /\ (resp.kind = "msg" /\ resp.rcode = RcodeNameError) => resp.synced

\* a name error answered SERVFAIL because the cache had not synchronized
C1_Witness ==
    /\ resp.kind = "msg" /\ resp.rcode = RcodeServerFailure
    /\ IsNameError(resp.err) /\ ~resp.synced

\* ------------------------------------------------------------------------ C2
\* C2: HasSynced() is true only when every enabled loop (service-import,
\* namespace, and endpoint when the endpoint watch is enabled) has completed
\* its initial enumeration.
C2_HasSyncedAllLoops ==
    HasSynced =>
      /\ hasSynced["svc"] /\ hasSynced["ns"]
      /\ initEndpointsCache => hasSynced["ep"]

\* ------------------------------------------------------------------------ C3
HeadlessQueries ==
    { Q(<<hdls1, testns, Svc>>, "A"),
      Q(<<<<"172", "-", "0", "-", "0", "-", "2">>, clusterid, hdls1, testns, Svc>>, "A") }

\* C3: while the endpoint watch is enabled and has not finished its initial
\* enumeration, a query for a headless service or one of its endpoints whose
\* endpoint records are not in the cache yet is answered SERVFAIL (no
\* fallthrough configured).
C3_UnsyncedEndpointsServfail ==
    [][ \A q \in HeadlessQueries :
          ( /\ resp' # resp /\ resp'.q = q
            /\ Fall = {} /\ initEndpointsCache /\ ~hasSynced["ep"]
            /\ testns \in nsLister
            /\ \E s \in svcImportLister : s.Name = hdls1 /\ s.Type = "Headless"
            /\ epLister = {} )
          => resp'.kind = "msg" /\ resp'.rcode = RcodeServerFailure ]_vars

\* ------------------------------------------------------------------------ C4
\* C4: the start-up hook returns once the 5-second ceiling has elapsed: after
\* it has taken the timeout case it has returned.
C4_StartReturnsAtTimeout == timeoutHandled => onStartPc = "returned"

\* ------------------------------------------------------------------------ C5
StopErr == "shutdown already in progress"

\* C5: over any calls to Stop(), at most one returns nil and the stop channel
\* is closed at most once, by that call only; a call returns the error only
\* after the successful one has returned, and once every call has returned
\* exactly one has returned nil.
C5_StopOnce ==
    /\ closeCount <= 1
    /\ Cardinality({s \in Stoppers : stopRet[s] = "nil"}) <= 1
    /\ closeCount = Cardinality({s \in Stoppers : stopPc[s] \in {"closed", "ok"} \/ stopRet[s] = "nil"})
    /\ shutdown => closeCount = 1
    /\ \A s \in Stoppers : stopRet[s] = StopErr => \E t \in Stoppers \ {s} : stopRet[t] = "nil"
    /\ \A s \in Stoppers : stopRet[s] \in {"none", "nil", StopErr}
    /\ (\A s \in Stoppers : stopPc[s] = "done") =>
          Cardinality({s \in Stoppers : stopRet[s] = "nil"}) = 1

\* every call has returned, one of them with the error
C5_Witness ==
    /\ \A s \in Stoppers : stopPc[s] = "done"
    /\ \E s \in Stoppers : stopRet[s] = StopErr
    /\ \E s \in Stoppers : stopRet[s] = "nil"

\* ------------------------------------------------------------------------ C6
EnabledLoops == IF initEndpointsCache THEN Loops ELSE {"svc", "ns"}

\* C6: Run() has started every enabled loop before it waits, does not return
\* before the stop channel is closed, and once the channel is closed every
\* enabled loop stops and Run() returns.
C6_RunUntilStopped ==
    /\ [](runPc \in {"inEp", "wait", "returned"} => \A l \in EnabledLoops : loop[l] # "idle")
    /\ [](runPc = "returned" => closeCount > 0)
    /\ ((closeCount > 0 /\ runPc # "idle")
          ~> (runPc = "returned" /\ \A l \in EnabledLoops : loop[l] = "stopped"))

C6_Witness ==
    /\ runPc = "returned" /\ initEndpointsCache
    /\ \A l \in Loops : loop[l] = "stopped"
    /\ \E s \in Stoppers : stopRet[s] = "nil"

\* ------------------------------------------------------------------------ C7
\* the keys held by the store of a handler loop
Keys(l) == {ObjKey(x) : x \in IF l = "svc" THEN svcImportLister ELSE epLister}

\* the handler of loop l has run for an Add or a Delete event
AddOrDeleteStep(l) == Keys(l)' # Keys(l)

\* the handler of loop l stores the second it read
StoreStep(l) == cb[l].pc = "store" /\ cb'[l].pc = "idle"

UpdateStep(l) == lastUpdate'[l] # lastUpdate[l] /\ lastUpdate'[l] # NoUpdate

\* C8 (as stated): every Update event of a service import leaves Modified()
\* greater than it was before, the same resource version included.
C8_SvcUpdateAdvance ==
    [][ /\ UpdateStep("svc") => cb'["svc"].pc = "store"
        /\ (StoreStep("svc") /\ cb["svc"].kind = "update") => modified' > cb["svc"].before ]_vars

\* C8 (amended): the handler of an Update event of a service import whose old
\* and new objects carry different resource versions reads the Unix second
\* and stores it as the modification clock; an Update whose objects carry the
\* same resource version leaves the clock unchanged.
C8_SvcUpdateStoreSecond ==
    [][ /\ UpdateStep("svc") =>
             IF lastUpdate'["svc"].old.Version # lastUpdate'["svc"].new.Version
             THEN /\ cb'["svc"].pc = "store" /\ cb'["svc"].kind = "update"
                  /\ cb'["svc"].unix = now /\ cb'["svc"].before = modified
             ELSE modified' = modified /\ cb' = cb
        /\ (StoreStep("svc") /\ cb["svc"].kind = "update") =>
             modified' = cb["svc"].unix /\ modified' >= cb["svc"].before ]_vars

\* the handler of an Update between two versions of a service import has
\* read a later second than the clock holds
C8_Witness ==
    /\ lastUpdate["svc"] # NoUpdate
    /\ lastUpdate["svc"].old.Version # lastUpdate["svc"].new.Version
    /\ cb["svc"].pc = "store" /\ cb["svc"].kind = "update"
    /\ cb["svc"].unix > cb["svc"].before

\* ------------------------------------------------------------------------ C9
\* equivalence of two endpoint records as the claim words it
ClaimEquivalent(a, b) ==
    /\ Len(a.Subsets) = Len(b.Subsets)
    /\ a.ClusterId = b.ClusterId
    /\ \A i \in 1..Len(a.Subsets) :
         LET sa == a.Subsets[i]
             sb == b.Subsets[i]
         IN /\ Len(sa.Addresses) = Len(sb.Addresses)
            /\ Len(sa.Ports) = Len(sb.Ports)
            /\ \A j \in 1..Len(sa.Addresses) :
                 /\ sa.Addresses[j].IP = sb.Addresses[j].IP
                 /\ sa.Addresses[j].Hostname = sb.Addresses[j].Hostname
            /\ \A j \in 1..Len(sa.Ports) :
                 /\ sa.Ports[j].Name = sb.Ports[j].Name
                 /\ sa.Ports[j].Port = sb.Ports[j].Port
                 /\ sa.Ports[j].Protocol = sb.Ports[j].Protocol

\* C9: an Update event of an endpoint record whose new record is equivalent
\* to the old one leaves Modified() unchanged: its handler stores nothing.
C9_EquivalentUpdateKeepsClock ==
    [][ (UpdateStep("ep") /\ ClaimEquivalent(lastUpdate'["ep"].old, lastUpdate'["ep"].new))
          => modified' = modified /\ cb' = cb ]_vars

\* an Update between two different, equivalent versions has been handled
C9_Witness ==
    /\ lastUpdate["ep"] # NoUpdate
    /\ lastUpdate["ep"].old.Version # lastUpdate["ep"].new.Version
    /\ lastUpdate["ep"].old.Subsets # lastUpdate["ep"].new.Subsets
    /\ ClaimEquivalent(lastUpdate["ep"].old, lastUpdate["ep"].new)
    /\ lastUpdate["ep"].new \in epLister
    /\ cb["ep"].pc = "idle"

\* ----------------------------------------------------------------------- C10
\* C10 (as stated): an Update event of an endpoint record whose new record is
\* not equivalent to the old one leaves Modified() greater than it was.
C10_DifferentUpdateAdvance ==
    [][ /\ (UpdateStep("ep") /\ ~ClaimEquivalent(lastUpdate'["ep"].old, lastUpdate'["ep"].new))
             => cb'["ep"].pc = "store"
        /\ (StoreStep("ep") /\ cb["ep"].kind = "update") => modified' > cb["ep"].before ]_vars

\* C10 (amended): the handler of an Update event of an endpoint record whose
\* old and new records carry different resource versions and differ in an
\* address IP or hostname, a port name, number or protocol, a count of
\* subsets, addresses or ports, or the cluster id reads the Unix second and
\* stores it as the modification clock.
C10_DifferentUpdateStoreSecond ==
    [][ /\ ( /\ UpdateStep("ep")
             /\ lastUpdate'["ep"].old.Version # lastUpdate'["ep"].new.Version
             /\ ~ClaimEquivalent(lastUpdate'["ep"].old, lastUpdate'["ep"].new) )
             => /\ cb'["ep"].pc = "store" /\ cb'["ep"].kind = "update"
                /\ cb'["ep"].unix = now /\ cb'["ep"].before = modified
        /\ (StoreStep("ep") /\ cb["ep"].kind = "update") =>
             modified' = cb["ep"].unix /\ modified' >= cb["ep"].before ]_vars

\* the handler of an Update that changed an address IP has read the clock
C10_Witness ==
    /\ lastUpdate["ep"] # NoUpdate
    /\ lastUpdate["ep"].old.Subsets[1].Addresses[1].IP # lastUpdate["ep"].new.Subsets[1].Addresses[1].IP
    /\ cb["ep"].pc = "store" /\ cb["ep"].kind = "update"
    /\ cb["ep"].unix = cb["ep"].before

\* ----------------------------------------------------------------------- C11
\* C11: across any interleaving of the callbacks of the service-import and
\* endpoint loops, successive values of Modified() never decrease.
C11_ClockMonotonic == [][Modified' >= Modified]_vars

\* ----------------------------------------------------------------------- C12
\* C12: a query leaves the service-import, endpoint and namespace caches, the
\* modification clock, the sync state and the shutdown flag unchanged: every
\* step that produces a response changes none of them.
C12_QueriesReadOnly ==
    [][ resp' # resp =>
          /\ svcImportLister' = svcImportLister /\ epLister' = epLister
          /\ nsLister' = nsLister
          /\ modified' = modified /\ cb' = cb
          /\ hasSynced' = hasSynced /\ loop' = loop
          /\ shutdown' = shutdown /\ closeCount' = closeCount ]_vars

\* a query has been answered from populated caches after the clock moved
C12_Witness ==
    /\ resp.kind = "msg"
    /\ svcImportLister # {} /\ epLister # {} /\ nsLister # {}
    /\ modified > 0 /\ HasSynced

\* ----------------------------------------------------------------------- C13
\* a label without its leading underscore
Stripped(l) == IF l # <<>> /\ l[1] = "_" THEN Tail(l) ELSE l

\* the response is the parse of a name with k labels left of
\* service.namespace.(svc|pod)
ParsedWithLeft(k) ==
    /\ resp.kind = "parsed"
    /\ Len(resp.base) = k + 3
    /\ resp.base[k + 3] \in {Svc, Pod}

\* C13: for a name with exactly two labels left of service.namespace.(svc|pod),
\* parseRequest populates exactly one pair: when the label next to the service
\* starts with an underscore, port and protocol are the two labels without
\* their leading underscore and endpoint and cluster are empty; otherwise
\* endpoint and cluster are the two labels and port and protocol are "*".
C13_ParsePopulatesOnePair ==
    ParsedWithLeft(2) =>
      /\ resp.err = errNil
      /\ IF resp.base[2] # <<>> /\ resp.base[2][1] = "_"
         THEN /\ resp.r.port = Stripped(resp.base[1])
              /\ resp.r.protocol = Stripped(resp.base[2])
              /\ resp.r.endpoint = <<>> /\ resp.r.cluster = <<>>
         ELSE /\ resp.r.endpoint = resp.base[1]
              /\ resp.r.cluster = resp.base[2]
              /\ resp.r.port = <<"*">> /\ resp.r.protocol = <<"*">>

\* ----------------------------------------------------------------------- C14
\* C14: for every zone, parseRequest of the zone itself, of svc.<zone> and of
\* pod.<zone> returns the request with all seven fields empty and no error.
C14_ApexParsesToZero ==
    (resp.kind = "parsed" /\ resp.base \in {<<>>, <<<<"svc">>>>, <<<<"pod">>>>}) =>
      /\ resp.err = errNil
      /\ resp.r = [port |-> <<>>, protocol |-> <<>>, cluster |-> <<>>, endpoint |-> <<>>,
                   service |-> <<>>, namespace |-> <<>>, podOrSvc |-> <<>>]

\* pod.<zone> has been parsed for a zone of three labels
C14_Witness ==
    /\ resp.kind = "parsed" /\ resp.base = <<Pod>> /\ Len(resp.zone) = 3
    /\ resp.err = errNil

\* ----------------------------------------------------------------------- C15
\* the number of labels left of service.namespace.scope
Leftover(base) == IF Len(base) > 3 THEN Len(base) - 3 ELSE 0

\* C15: for a name other than the zone, svc.<zone> and pod.<zone>, parseRequest
\* returns InvalidRequest exactly when the rightmost label before the zone is
\* neither "pod" nor "svc" or one or more than two labels are left of the
\* service; with a valid scope and zero or two labels left it returns no error.
C15_InvalidRequestExactly ==
    (resp.kind = "parsed" /\ resp.base \notin {<<>>, <<Svc>>, <<Pod>>}) =>
      /\ resp.err = errInvalidRequest <=>
           \/ resp.base[Len(resp.base)] \notin {Svc, Pod}
           \/ Leftover(resp.base) = 1
           \/ Leftover(resp.base) > 2
      /\ (resp.base[Len(resp.base)] \in {Svc, Pod} /\ Leftover(resp.base) \in {0, 2})
           => resp.err = errNil

\* the kinds of response ServeDNS produces
ServeKinds == {"msg", "next", "error", "panic"}

\* C16: a type A query <service>.<namespace>.svc.<zone> for a ClusterSetIP
\* service with a named port and cluster IPs, in an exposed namespace, is
\* answered with one A record per (IPv4) cluster IP, TTL 5, and not with a
\* name error
C16_ServiceQueryResolves ==
    \A s \in svcImportLister :
        (/\ resp.kind \in ServeKinds
         /\ resp.q = Q(<<s.Name, s.Namespace, Svc>>, "A")
         /\ s.Type = "ClusterSetIP" /\ s.Ports # <<>> /\ s.ClusterIPs # <<>>
         /\ \A i \in 1..Len(s.ClusterIPs) : Contains(s.ClusterIPs[i], ".")
         /\ s.Namespace \in nsLister)
        => /\ resp.kind = "msg"
           /\ resp.rcode = RcodeSuccess
           /\ resp.answer = [i \in 1..Len(s.ClusterIPs) |->
                               [type |-> "A", name |-> resp.q.name, ttl |-> defaultTTL,
                                data |-> s.ClusterIPs[i]]]

\* the hostname of an address as C17 and C19 state it: the explicit hostname,
\* else the IP with every "." and every ":" replaced by "-"
ClaimHostname(a) == IF a.Hostname # <<>> THEN a.Hostname ELSE Dashed(a.IP)

\* the IPv4 addresses of the endpoint records of service <service>.<namespace>
\* whose cluster id and hostname equal the labels, case-insensitively
MatchingIPs(endpoint, cluster, service, namespace) ==
    { e.Subsets[i].Addresses[j].IP :
        <<e, i, j>> \in { <<e, i, j>> \in epLister \X (1..2) \X (1..2) :
                            /\ i <= Len(e.Subsets)
                            /\ j <= Len(e.Subsets[i].Addresses)
                            /\ e.Subsets[i].Ports # <<>>
                            /\ Contains(e.Subsets[i].Addresses[j].IP, ".")
                            /\ match(e.Index, EndpointsKey(service, namespace))
                            /\ match(cluster, e.ClusterId)
                            /\ match(endpoint, ClaimHostname(e.Subsets[i].Addresses[j])) } }

\* C17: a type A query <endpoint>.<clusterId>.<service>.<namespace>.svc.<zone>
\* for a service of the store in an exposed namespace is answered with exactly
\* the addresses whose cluster id and endpoint hostname equal the labels
C17_EndpointQueryExact ==
    (/\ resp.kind \in ServeKinds
     /\ resp.q.qtype = "A"
     /\ Len(resp.q.name) = 7
     /\ resp.q.name[5] = Svc
     /\ ~HasPrefix(resp.q.name[1], "_")
     /\ ToLower(resp.q.name[4]) \in nsLister
     /\ \E s \in svcImportLister :
            match(s.Name, resp.q.name[3]) /\ match(s.Namespace, resp.q.name[4]))
    => LET ips == MatchingIPs(resp.q.name[1], resp.q.name[2], resp.q.name[3], resp.q.name[4])
       IN /\ {resp.answer[i].data : i \in 1..Len(resp.answer)} = ips
          /\ ips # {} => resp.kind = "msg" /\ resp.rcode = RcodeSuccess

\* the ports of service s whose name and protocol equal the labels _port
\* and _protocol
PassingPorts(s, port, protocol) ==
    { k \in 1..Len(s.Ports) :
        match(Tail(port), s.Ports[k].Name) /\ match(Tail(protocol), s.Ports[k].Protocol) }

\* C18: for a ClusterSetIP service with N cluster IPs of which exactly one port
\* passes the port and protocol filter of the query, resolution returns N
\* records, one per cluster IP in order, each with that port, the default TTL
\* and the key <zonePath>/svc/<namespace>/<service>
C18_ClusterSetIPRecords ==
    \A s \in svcImportLister :
        (/\ resp.kind = "services"
         /\ resp.q.qtype # "TXT"
         /\ Len(resp.q.name) = 7
         /\ resp.q.name[5] = Svc
         /\ HasPrefix(resp.q.name[1], "_") /\ HasPrefix(resp.q.name[2], "_")
         /\ match(s.Name, resp.q.name[3]) /\ match(s.Namespace, resp.q.name[4])
         /\ s.Namespace \in nsLister
         /\ s.Type = "ClusterSetIP"
         /\ Cardinality(PassingPorts(s, resp.q.name[1], resp.q.name[2])) = 1)
        => /\ resp.err = errNil
           /\ resp.services =
                [i \in 1..Len(s.ClusterIPs) |->
                    [Host |-> s.ClusterIPs[i],
                     Port |-> s.Ports[CHOOSE k \in PassingPorts(s, resp.q.name[1], resp.q.name[2]) : TRUE].Port,
                     TTL |-> defaultTTL,
                     Key |-> JoinSlash(<<Path(ZoneClusterLocal, coredns), Svc, s.Namespace, s.Name>>),
                     Text |-> <<>>]]

\* two cluster IPs and two ports of which only http/tcp passes
C18_Witness ==
    /\ resp.kind = "services"
    /\ resp.q = Q(<<<<"_", "http">>, <<"_", "tcp">>, svc1, testns, Svc>>, "SRV")
    /\ \E s \in svcImportLister : Len(s.ClusterIPs) = 2 /\ Len(s.Ports) = 2
    /\ Len(resp.services) = 2
    /\ resp.services[1].Host = ip10_0_0_1 /\ resp.services[2].Host = ip10__2
    /\ resp.services[1].Port = 80

\* the addresses of the endpoint records in the store: <<endpoints, address>>
StoredAddresses ==
    { <<e, e.Subsets[i].Addresses[j]>> :
        <<e, i, j>> \in { <<e, i, j>> \in epLister \X (1..2) \X (1..2) :
                            i <= Len(e.Subsets) /\ j <= Len(e.Subsets[i].Addresses) } }

\* C19: every record resolved for a headless service has the IP of an address
\* as host and the key <zonePath>/svc/<namespace>/<service>/<clusterId>/<hostname>,
\* the hostname being the explicit one, else the IP with every "." and every
\* ":" replaced by "-"
C19_HeadlessRecordKey ==
    \A s \in svcImportLister :
        (/\ resp.kind = "services"
         /\ resp.q.qtype # "TXT"
         /\ Len(resp.q.name) >= 5
         /\ match(s.Name, resp.q.name[Len(resp.q.name) - 4])
         /\ match(s.Namespace, resp.q.name[Len(resp.q.name) - 3])
         /\ s.Type = "Headless")
        => \A k \in 1..Len(resp.services) :
              \E ea \in StoredAddresses :
                  /\ resp.services[k].Host = ea[2].IP
                  /\ resp.services[k].Key =
                        JoinSlash(<<Path(ZoneClusterLocal, coredns), Svc, s.Namespace, s.Name,
                                    ea[1].ClusterId, ClaimHostname(ea[2])>>)

\* the labels of the question of the response left of the zone
RespLabels == SubSeq(resp.q.name, 1, Len(resp.q.name) - Len(ZoneClusterLocal))

\* the question of the response names a namespace: at least <namespace>.<scope>
NamesNamespace == resp.kind = "services" /\ Len(RespLabels) >= 2

RespNamespace == ToLower(RespLabels[Len(RespLabels) - 1])

\* C20 as stated: a query naming a namespace absent from the namespace store
\* is resolved to NamespaceNotExposed, whatever its type and the other stores
C20_AbsentNamespaceAnyQuery ==
    (NamesNamespace /\ RespNamespace \notin nsLister) => resp.err = errNsNotExposed

\* C20 amended: a query of a type other than TXT whose name is
\* [<_port>.<_protocol>.|<endpoint>.<cluster>.][<service>.]<namespace>.<svc|pod>.<zone>
\* and whose namespace is absent from the namespace store is resolved to
\* NamespaceNotExposed, whatever the other stores hold
C20_AbsentNamespaceNotExposed ==
    (/\ NamesNamespace
     /\ RespNamespace \notin nsLister
     /\ resp.q.qtype # "TXT"
     /\ Len(RespLabels) \in {2, 3, 5}
     /\ RespLabels[Len(RespLabels)] \in {Svc, Pod}
     /\ \A k \in 1..Len(RespLabels) : RespLabels[k] # <<>>)
    => resp.err = errNsNotExposed /\ resp.services = <<>>

\* svc1.testns.svc with svc1 stored and testns not exposed
C20_Witness ==
    /\ resp.kind = "services"
    /\ resp.q = Q(<<svc1, testns, Svc>>, "A")
    /\ nsLister = {}
    /\ \E s \in svcImportLister : s.Name = svc1 /\ s.Namespace = testns
    /\ epLister # {}
    /\ resp.err = errNsNotExposed

\* ----------------------------------------------------------------------- C21
\* C21: with the endpoint watch disabled, a query for a headless service or for
\* one of its endpoints, made when the stores are synchronized and no
\* fallthrough is configured, is answered NXDOMAIN and ends no other way
C21_NoEndpointsNameError ==
    (/\ resp.kind \in ServeKinds
     /\ resp.q \in HeadlessQueries
     /\ ~initEndpointsCache
     /\ resp.synced
     /\ Fall = FallZero)
    => resp.kind = "msg" /\ resp.rcode = RcodeNameError

\* ----------------------------------------------------------------------- C22
\* C22: a TXT query for dns-version.<zone> is answered with one TXT record of
\* text 1.1.0 and TTL 28800, whatever the stores hold and whether or not they
\* are synchronized
C22_VersionRecordFixed ==
    (resp.kind \in ServeKinds /\ resp.q = Q(<<<<"dns-version">>>>, "TXT"))
    => /\ resp.kind = "msg"
       /\ resp.rcode = RcodeSuccess
       /\ resp.answer = <<[type |-> "TXT", name |-> resp.q.name, ttl |-> 28800,
                           data |-> <<"1", ".", "1", ".", "0">>]>>

\* the version is asked for before the stores are synchronized
C22_Witness ==
    /\ resp.kind = "msg"
    /\ resp.q = Q(<<<<"dns-version">>>>, "TXT")
    /\ ~resp.synced
    /\ Len(resp.answer) = 1

\* ----------------------------------------------------------------------- C23
\* the response is NODATA: success, no answer, the SOA record as authority
NoData ==
    /\ resp.kind = "msg"
    /\ resp.rcode = RcodeSuccess
    /\ resp.answer = <<>>
    /\ resp.ns = <<SOARecord(ZoneClusterLocal)>>

\* C23: a TXT query for a name other than dns-version.<zone> is answered NODATA
\* when the generic resolution (Records) of the name finds a record, and
\* otherwise ends in NoItems, NXDOMAIN with synchronized stores and no
\* fallthrough
C23_TxtNodataOrNoItems ==
    (/\ resp.kind \in ServeKinds
     /\ resp.q.qtype = "TXT"
     /\ resp.q.name # Name(<<<<"dns-version">>>>))
    => IF Len(Records(LowerName(resp.q.name), ZoneClusterLocal).services) > 0
       THEN NoData
       ELSE resp.kind = "msg" /\ resp.err = errNoItems /\ resp.rcode = RcodeNameError

\* ----------------------------------------------------------------------- C24
\* the names C24 lists: the zone, svc.<zone>, pod.<zone> and
\* <namespace>.svc.<zone> for an exposed namespace
EmptyNames == {Name(<<>>), Name(<<Svc>>), Name(<<Pod>>)} \cup {Name(<<n, Svc>>) : n \in nsLister}

\* C24: a query in the zone whose resolution returns no error and no record
\* is answered NODATA, and so are the type A queries for the zone, svc.<zone>,
\* pod.<zone> and <namespace>.svc.<zone> with the namespace exposed
C24_NoErrorNoRecordsNodata ==
    /\ (/\ resp.kind \in ServeKinds
        /\ ZoneMatches(Zones, resp.q.name) # NoZone
        /\ resp.err = errNil
        /\ resp.answer = <<>>)
       => NoData
    /\ (/\ resp.kind \in ServeKinds
        /\ resp.q.qtype = "A"
        /\ resp.q.name \in EmptyNames)
       => resp.err = errNil /\ NoData

\* testns.svc.<zone> with services stored in the exposed namespace
C24_Witness ==
    /\ resp.kind = "msg"
    /\ resp.q = Q(<<testns, Svc>>, "A")
    /\ svcImportLister # {}
    /\ NoData

\* ----------------------------------------------------------------------- C25
\* the question of the response names a service of an exposed namespace under
\* svc or pod: [<two labels>.]<service>.<namespace>.<scope>.<zone>
NamesService ==
    /\ resp.kind = "services"
    /\ resp.q.qtype # "TXT"
    /\ Len(RespLabels) \in {3, 5}
    /\ RespLabels[Len(RespLabels)] \in {Svc, Pod}
    /\ RespNamespace \in nsLister

\* the request parsed from the question of the response
RespRequest == parseRequest(LowerName(resp.q.name), ZoneClusterLocal).r

\* a port of the list passes the filter of request r
SomePortPasses(r, ports) ==
    \E k \in 1..Len(ports) : matchPortAndProtocol(r.port, ports[k].Name, r.protocol, ports[k].Protocol)

\* the iteration of findServices for request r reaches a passing port
ReachesPassingPort(r) ==
    \E s \in svcImportLister :
        /\ match(r.namespace, s.Namespace) /\ match(r.service, s.Name)
        /\ IF s.Type = "Headless" \/ r.endpoint # <<>>
           THEN \E ea \in StoredAddresses :
                   /\ ea[1].Index = EndpointsKey(s.Name, s.Namespace)
                   /\ r.endpoint # <<>> =>
                         match(r.cluster, ea[1].ClusterId) /\ match(r.endpoint, endpointHostname(ea[2]))
                   /\ \E i \in 1..Len(ea[1].Subsets) :
                         /\ \E j \in 1..Len(ea[1].Subsets[i].Addresses) :
                               ea[1].Subsets[i].Addresses[j] = ea[2]
                         /\ SomePortPasses(r, ea[1].Subsets[i].Ports)
           ELSE SomePortPasses(r, s.Ports)

\* C25: findServices returns a nil error exactly when its iteration reaches a
\* port that passes the filter, and NoItems otherwise; a ClusterSetIP service
\* with a passing port and no cluster IP gives no record and a nil error
C25_NilErrorIffPortPassed ==
    NamesService
    => /\ resp.err = (IF ReachesPassingPort(RespRequest) THEN errNil ELSE errNoItems)
       /\ \A s \in svcImportLister :
             (/\ match(RespRequest.namespace, s.Namespace) /\ match(RespRequest.service, s.Name)
              /\ s.Type = "ClusterSetIP" /\ RespRequest.endpoint = <<>>
              /\ s.ClusterIPs = <<>>
              /\ SomePortPasses(RespRequest, s.Ports))
             => resp.err = errNil /\ resp.services = <<>>

\* ----------------------------------------------------------------------- C26
\* the question of the response is _<port>._<protocol>.<service>.<namespace>.svc.<zone>
\* with the namespace exposed
NamesPort ==
    /\ NamesService
    /\ Len(RespLabels) = 5
    /\ RespLabels[5] = Svc
    /\ HasPrefix(RespLabels[1], "_") /\ HasPrefix(RespLabels[2], "_")

\* an empty field of the query matches any value, another one the values
\* equal to it case-insensitively
FieldMatches(field, value) == field = <<>> \/ match(field, value)

PortMatches(p) ==
    /\ FieldMatches(Tail(RespLabels[1]), p.Name)
    /\ FieldMatches(Tail(RespLabels[2]), p.Protocol)

\* the records built from the matching ports of service s
PortRecords(s) ==
    IF s.Type = "Headless"
    THEN { [Host |-> ea[2].IP, Port |-> ea[1].Subsets[i].Ports[k].Port, TTL |-> defaultTTL,
            Key |-> JoinSlash(<<Path(ZoneClusterLocal, coredns), Svc, s.Namespace, s.Name,
                                ea[1].ClusterId, endpointHostname(ea[2])>>),
            Text |-> <<>>] :
             <<ea, i, k>> \in { <<ea, i, k>> \in StoredAddresses \X (1..2) \X (1..2) :
                                  /\ ea[1].Index = EndpointsKey(s.Name, s.Namespace)
                                  /\ i <= Len(ea[1].Subsets)
                                  /\ \E j \in 1..Len(ea[1].Subsets[i].Addresses) :
                                        ea[1].Subsets[i].Addresses[j] = ea[2]
                                  /\ k <= Len(ea[1].Subsets[i].Ports)
                                  /\ PortMatches(ea[1].Subsets[i].Ports[k]) } }
    ELSE { [Host |-> s.ClusterIPs[i], Port |-> s.Ports[k].Port, TTL |-> defaultTTL,
            Key |-> JoinSlash(<<Path(ZoneClusterLocal, coredns), Svc, s.Namespace, s.Name>>),
            Text |-> <<>>] :
             <<i, k>> \in { <<i, k>> \in (1..Len(s.ClusterIPs)) \X (1..Len(s.Ports)) :
                              PortMatches(s.Ports[k]) } }

\* no port of service s, or of its endpoint records, matches
NoPortMatches(s) ==
    IF s.Type = "Headless"
    THEN PortRecords(s) = {}
    ELSE \A k \in 1..Len(s.Ports) : ~PortMatches(s.Ports[k])

\* C26: a query _<port>._<protocol>.<service>.<namespace>.svc.<zone> returns
\* exactly the records built from the ports whose name and protocol equal the
\* labels case-insensitively, an empty label matching any value, and NoItems
\* when the service exists and no port matches
C26_PortFilter ==
    \A s \in svcImportLister :
        (/\ NamesPort
         /\ match(RespLabels[3], s.Name) /\ match(RespLabels[4], s.Namespace))
        => /\ {resp.services[k] : k \in 1..Len(resp.services)} = PortRecords(s)
           /\ Len(resp.services) = Cardinality(PortRecords(s))
           /\ NoPortMatches(s) => resp.err = errNoItems

\* ----------------------------------------------------------------------- C27
\* one record per endpoint record with the key of service s, subset, address
\* and port
AllEndpointRecords(s) ==
    { [Host |-> ea[2].IP, Port |-> ea[1].Subsets[i].Ports[k].Port, TTL |-> defaultTTL,
       Key |-> JoinSlash(<<Path(ZoneClusterLocal, coredns), Svc, s.Namespace, s.Name,
                           ea[1].ClusterId, endpointHostname(ea[2])>>),
       Text |-> <<>>] :
        <<ea, i, k>> \in { <<ea, i, k>> \in StoredAddresses \X (1..2) \X (1..2) :
                             /\ ea[1].Index = EndpointsKey(s.Name, s.Namespace)
                             /\ i <= Len(ea[1].Subsets)
                             /\ \E j \in 1..Len(ea[1].Subsets[i].Addresses) :
                                   ea[1].Subsets[i].Addresses[j] = ea[2]
                             /\ k <= Len(ea[1].Subsets[i].Ports) } }

\* C27: a query <service>.<namespace>.svc.<zone> for a headless service returns
\* one record per endpoint record, subset, address and port over all endpoint
\* records whose key is <service>.<namespace>, and no other record
C27_HeadlessAggregates ==
    \A s \in svcImportLister :
        (/\ NamesService
         /\ RespLabels = <<s.Name, s.Namespace, Svc>>
         /\ s.Type = "Headless")
        => /\ {resp.services[k] : k \in 1..Len(resp.services)} = AllEndpointRecords(s)
           /\ Len(resp.services) = Cardinality(AllEndpointRecords(s))

\* ----------------------------------------------------------------------- C28
\* the response is a name-error response: the query is handed on, or answered
\* SERVFAIL or NXDOMAIN without records
NameErrorAnswer(r) ==
    \/ r.kind = "next"
    \/ r.kind = "msg" /\ r.rcode \in {RcodeServerFailure, RcodeNameError} /\ r.answer = <<>>

\* the query of the response is of a type ServeDNS only classifies
ClassifiedOnly ==
    /\ resp.kind \in ServeKinds
    /\ ZoneMatches(Zones, resp.q.name) # NoZone
    /\ \/ resp.q.qtype \notin {"A", "AAAA", "TXT", "SRV", "SOA", "NS"}
       \/ resp.q.qtype = "NS" /\ LowerName(resp.q.name) # ZoneClusterLocal

\* C28: for a type other than A, AAAA, TXT, SRV and SOA, and for NS below the
\* zone, the answer section is empty and the response is a name-error response
\* exactly when the type A resolution of the name yields a name error, and
\* NODATA otherwise; SOA and NS queries get records only at the zone apex
C28_OtherTypesClassified ==
    /\ ClassifiedOnly
       => /\ resp.answer = <<>>
          /\ IF IsNameError(Services(resp.q.name, ZoneClusterLocal, "A").err)
             THEN NameErrorAnswer(resp)
             ELSE NoData
    /\ (resp.kind \in ServeKinds /\ resp.q.qtype \in {"SOA", "NS"} /\ resp.answer # <<>>)
       => LowerName(resp.q.name) = ZoneClusterLocal

\* ----------------------------------------------------------------------- C29
\* C29: parseRequest of ..webs.mynamespace.svc.<zone>, whose two labels left of
\* the service are empty, returns with no error: service, namespace and scope
\* are set and port, protocol, endpoint and cluster receive no label content
C29_EmptyLabelsParse ==
    (/\ resp.kind = "parsed"
     /\ resp.base = <<<<>>, <<>>, <<"webs">>, <<"mynamespace">>, Svc>>)
    => /\ resp.err = errNil
       /\ resp.r.service = <<"webs">>
       /\ resp.r.namespace = <<"mynamespace">>
       /\ resp.r.podOrSvc = Svc
       /\ resp.r.endpoint = <<>> /\ resp.r.cluster = <<>>
       /\ resp.r.port \in {<<>>, <<"*">>} /\ resp.r.protocol \in {<<>>, <<"*">>}

\* ----------------------------------------------------------------------- C30
\* the response is NXDOMAIN
NxDomain(r) == r.kind = "msg" /\ r.rcode = RcodeNameError

\* the response is an answer without name error: records or NODATA
Answered(r) == r.kind = "msg" /\ r.rcode = RcodeSuccess

\* the answer, in the stores as they are, to the type A query for the name of
\* the response
TypeAResponse == ServeDNSResponse([name |-> resp.q.name, qtype |-> "A"])

\* C30 as stated: with synchronized stores and no fallthrough, a query of
\* another type is not answered NXDOMAIN when the type A query for its name is
\* answered without name error, and is answered NXDOMAIN when the type A query is
C30_NameErrorAnyType ==
    (/\ resp.kind \in ServeKinds
     /\ resp.q.qtype # "A"
     /\ HasSynced /\ Fall = FallZero)
    => /\ Answered(TypeAResponse) => ~NxDomain(resp)
       /\ NxDomain(TypeAResponse) => NxDomain(resp)

\* C30 amended: a query of a type other than A, AAAA, TXT, SRV and SOA, NS
\* below the zone apex included, is answered NXDOMAIN exactly when the type A
\* query for its name is, and is answered NODATA when the type A query is
\* answered without name error; a TXT query for a name other than
\* dns-version.<zone> is answered NXDOMAIN when the type A query is, and is not
\* when the type A query is answered with records
C30_NameErrorClassifiedTypes ==
    /\ (ClassifiedOnly /\ HasSynced /\ Fall = FallZero)
       => /\ NxDomain(resp) <=> NxDomain(TypeAResponse)
          /\ Answered(TypeAResponse) => NoData
    /\ (/\ resp.kind \in ServeKinds
        /\ resp.q.qtype = "TXT"
        /\ resp.q.name # Name(<<<<"dns-version">>>>)
        /\ HasSynced /\ Fall = FallZero)
       => /\ NxDomain(TypeAResponse) => NxDomain(resp)
          /\ (Answered(TypeAResponse) /\ TypeAResponse.answer # <<>>) => ~NxDomain(resp)

\* an MX query for a name whose type A query is answered with a record
C30_Witness ==
    /\ resp.kind = "msg"
    /\ resp.q = Q(<<<<"_", "http">>, <<"_", "tcp">>, svc1, testns, Svc>>, "MX")
    /\ NoData
    /\ Answered(TypeAResponse) /\ TypeAResponse.answer # <<>>

====
